---- MODULE Spec2Model ----
(***************************************************************************)
(* Model of the StreamSaavy download job orchestrator (web interface):     *)
(* the shared DownloadState of streamsaavy_app/web.py, the /start request  *)
(* handler, and the BackgroundDownloader worker thread of                  *)
(* streamsaavy_app/downloader.py.                                          *)
(*                                                                         *)
(* Every DownloadState method runs under the object's lock, so each method *)
(* call is one atomic step.  Request handlers run on the threads of the    *)
(* Flask server and interleave with each other and with the worker thread  *)
(* between any two such calls.                                             *)
(*                                                                         *)
(* Text is a sequence of one-character strings; percentages are integers.  *)
(***************************************************************************)
EXTENDS Integers, Sequences, FiniteSets, TLC

\* ------------------------------------------------------------------ bounds
MaxRequests == 2
MaxRecords == 1
NumHandlers == 2
MaxThreads == 2
MaxJobs == 2
MaxJobRecords == 2
MaxAdds == 403

\* ------------------------------------------------------- program constants
LogCapacity == 400
FullProgress == 100

None == "<None>"
NoThread == 0
NoDir == 0

Handlers == 1 .. NumHandlers
ThreadIds == 1 .. MaxThreads

\* active .. last_cookies_dir: the fields of DownloadState; tmpdirs: the
\* cookie directories on disk; bg_thread: BackgroundDownloader._thread;
\* tstate, w*: the worker threads and their locals; h*: the request handlers
\* and their locals.
\* The Tk window (ui.py): progress_var, is_downloading, download_button,
\* cancel_button, tk_cookies_path and log_queue are its fields and widgets;
\* after_queue holds the callbacks handed to self.after(0, ...) that
\* the main loop has not run yet; tk_dialog is the message box shown by the
\* handler that ran last on the main thread (None: it showed none);
\* tk_wpc and tk_werr are the position and the error of its worker thread.
\* monitor_progress (download_engine.py, download.py): mon_impl is the module
\* whose monitor_progress runs, mon_pc its position, processing_complete its
\* local flag; mon_log and mon_progress are the calls it has made to
\* log_handler and progress_handler during the current run; run_outcome tells
\* whether run_download is under way, has returned or has raised
\* CalledProcessError.
\* The plan builders (downloader.py, download_engine.py, download.py):
\* home_cookies tells whether the file ~/.yt-dlp-cookies.txt exists;
\* plan_call is the builder called last with its arguments and plan_result
\* what that call returned or raised; plan_first is what the first call with
\* these arguments returned or raised; plan_builds tells whether the file
\* existed at the first and, once the call was repeated, at the last of these
\* calls.
\* last_snapshot is the dictionary the last call of state.snapshot() returned.
\* History kept for the properties: added counts the add_log calls since the
\* log was last emptied, hrunning[h] tells whether the status was "running"
\* when the request of handler h arrived, tk_jobs and tk_count count the jobs
\* of the window and the records of its current job, tk_cancelled tells
\* whether Cancel was pressed during the current job, mon_jobs and mon_count
\* count the runs of monitor_progress and the lines of the current run.
VARIABLES
    active, progress, status, logs, last_error, last_cookies_dir,
    tmpdirs,
    bg_thread,
    tstate, wpc, wreq, wrec, werr, wcount,
    hpc, hform, hcookies, hrunning,
    nreq, ndirs, added,
    progress_var,
    is_downloading, download_button, cancel_button, tk_cookies_path,
    log_queue, after_queue, tk_dialog,
    tk_wpc, tk_werr, tk_jobs, tk_count, tk_cancelled,
    mon_impl, mon_pc, processing_complete, mon_log, mon_progress, mon_jobs, mon_count,
    run_outcome,
    home_cookies, plan_call, plan_result, plan_first, plan_builds,
    last_snapshot

ds_vars == <<active, progress, status, logs, last_error, last_cookies_dir, tmpdirs, added>>
job_vars == <<active, progress, status, logs, last_error>>
w_vars == <<tstate, wpc, wreq, wrec, werr, wcount>>
h_vars == <<hpc, hform, hcookies, hrunning, nreq, ndirs>>
vars == <<active, progress, status, logs, last_error, last_cookies_dir, tmpdirs,
          bg_thread, tstate, wpc, wreq, wrec, werr, wcount, hpc, hform, hcookies,
          hrunning, nreq, ndirs, added, progress_var,
          is_downloading, download_button, cancel_button, tk_cookies_path,
          log_queue, after_queue, tk_dialog,
          tk_wpc, tk_werr, tk_jobs, tk_count, tk_cancelled,
          mon_impl, mon_pc, processing_complete, mon_log, mon_progress, mon_jobs, mon_count,
          run_outcome,
          home_cookies, plan_call, plan_result, plan_first, plan_builds, last_snapshot>>
\* a run of monitor_progress
mon_vars == <<mon_impl, mon_pc, processing_complete, mon_log, mon_progress, mon_jobs, mon_count,
              run_outcome>>
\* the Tk window (ui.py) without its progress bar
win_vars ==
    <<is_downloading, download_button, cancel_button, tk_cookies_path,
      log_queue, after_queue, tk_dialog,
      tk_wpc, tk_werr, tk_jobs, tk_count, tk_cancelled>>
\* the plan builders
plan_vars == <<home_cookies, plan_call, plan_result, plan_first, plan_builds>>
\* the Tk window (ui.py), the download helper it calls, the plan builders and
\* the snapshot a client holds
tk_vars == <<progress_var, win_vars, mon_vars, plan_vars, last_snapshot>>
\* the threads of the web server
proc_vars ==
    <<bg_thread, tstate, wpc, wreq, wrec, werr, wcount, hpc, hform, hcookies, hrunning, nreq,
      ndirs>>

\* ------------------------------------------------------------ text helpers
Whitespace == {" ", "\t", "\n"}
Digits == {"0", "1", "2", "3", "4", "5", "6", "7", "8", "9"}

DigitValue(c) ==
    CASE c = "0" -> 0 [] c = "1" -> 1 [] c = "2" -> 2 [] c = "3" -> 3 [] c = "4" -> 4
      [] c = "5" -> 5 [] c = "6" -> 6 [] c = "7" -> 7 [] c = "8" -> 8 [] c = "9" -> 9

RECURSIVE LStrip(_)
LStrip(s) == IF s # <<>> /\ Head(s) \in Whitespace THEN LStrip(Tail(s)) ELSE s

RECURSIVE RStrip(_)
RStrip(s) ==
    IF s # <<>> /\ s[Len(s)] \in Whitespace THEN RStrip(SubSeq(s, 1, Len(s) - 1)) ELSE s

\* str.strip()
Strip(s) == RStrip(LStrip(s))

\* str.rstrip("%")
RECURSIVE RStripPercent(_)
RStripPercent(s) ==
    IF s # <<>> /\ s[Len(s)] = "%" THEN RStripPercent(SubSeq(s, 1, Len(s) - 1)) ELSE s

RECURSIVE DigitsValue(_)
DigitsValue(s) ==
    IF s = <<>> THEN 0 ELSE 10 * DigitsValue(SubSeq(s, 1, Len(s) - 1)) + DigitValue(s[Len(s)])

AllDigits(s) == s # <<>> /\ \A i \in 1 .. Len(s) : s[i] \in Digits

\* float(text) for the literals used here: surrounding whitespace is
\* ignored, then an optional sign and a run of digits.  Anything else
\* raises ValueError.
FloatBody(s) == IF s # <<>> /\ Head(s) \in {"+", "-"} THEN Tail(s) ELSE s
FloatParses(s) == AllDigits(FloatBody(Strip(s)))
FloatValue(s) ==
    LET t == Strip(s)
    IN IF Head(t) = "-" THEN 0 - DigitsValue(FloatBody(t)) ELSE DigitsValue(FloatBody(t))

Min2(a, b) == IF b < a THEN b ELSE a
Max2(a, b) == IF b > a THEN b ELSE a

\* dict.get(key, default)
Get(rec, key, default) == IF key \in DOMAIN rec THEN rec[key] ELSE default

Truthy(x) == x # None /\ x # ""

\* ------------------------------------------------------------- exceptions
\* An exception is a record; NoError stands for "error is None".
NoError == [kind |-> "None", msg |-> None]
FormatUnavailableMsg == "ERROR: Requested format is not available"
OnlyImagesMsg == "ERROR: Only images are available for download"
NetworkMsg == "ERROR: unable to download webpage"
MkdirMsg == "[Errno 13] Permission denied"
MissingUrlMsg == "A video or playlist URL is required."
BadModeMsg == "is not a valid DownloadMode"

DownloadErrors ==
    { [kind |-> "DownloadError", msg |-> m] : m \in {FormatUnavailableMsg, OnlyImagesMsg, NetworkMsg} }
AllEngineErrors ==
    { [kind |-> "DownloadError", msg |-> m] : m \in {FormatUnavailableMsg, NetworkMsg} }
    \cup { [kind |-> "RuntimeError", msg |-> ""] }
EngineErrors == { [kind |-> "DownloadError", msg |-> FormatUnavailableMsg] }
MkdirError == [kind |-> "OSError", msg |-> MkdirMsg]

\* str(exc)
Str(exc) == exc.msg

\* needle in message, for the messages above
Contains(message, needle) ==
    \/ needle = "Only images are available" /\ message = OnlyImagesMsg
    \/ needle = "Requested format is not available" /\ message = FormatUnavailableMsg

\* ---------------------------------------------------------------- log lines
Line(k) == [k |-> k]
LineOf(k, a) == [k |-> k, arg |-> a]

\* ---------------------------------------------------- DownloadState (web.py)
\* _cleanup_cookies_dir: remove the tracked directory from disk, forget it.
cleanup_cookies_dir ==
    /\ tmpdirs' = IF last_cookies_dir # NoDir /\ last_cookies_dir \in tmpdirs
                  THEN tmpdirs \ {last_cookies_dir} ELSE tmpdirs
    /\ last_cookies_dir' = NoDir

state_reset ==
    /\ active' = FALSE
    /\ progress' = 0
    /\ status' = "idle"
    /\ logs' = <<>>
    /\ last_error' = None
    /\ cleanup_cookies_dir
    /\ added' = 0

\* state.start() that forgets to clear the last error
state_start_keeps_error ==
    /\ active' = TRUE
    /\ progress' = 0
    /\ status' = "running"
    /\ logs' = <<>>
    /\ added' = 0
    /\ UNCHANGED <<last_error, last_cookies_dir, tmpdirs>>

state_start ==
    /\ active' = TRUE
    /\ progress' = 0
    /\ status' = "running"
    /\ last_error' = None
    /\ logs' = <<>>
    /\ added' = 0
    /\ UNCHANGED <<last_cookies_dir, tmpdirs>>

\* state.finish() that reports every job as completed
state_finish_ignores_error(error) ==
    /\ active' = FALSE
    /\ progress' = FullProgress
    /\ status' = "completed"
    /\ cleanup_cookies_dir
    /\ UNCHANGED <<logs, added, last_error>>

state_finish(error) ==
    /\ active' = FALSE
    /\ progress' = IF error = NoError THEN FullProgress ELSE progress
    /\ status' = IF error = NoError THEN "completed" ELSE "error"
    /\ last_error' = IF error # NoError THEN Str(error) ELSE last_error
    /\ cleanup_cookies_dir
    /\ UNCHANGED <<logs, added>>

\* add_log that keeps the oldest 400 lines instead of the newest
appended_keeps_oldest(seq, message) ==
    LET all == Append(seq, message)
    IN IF Len(all) > LogCapacity THEN SubSeq(all, 1, LogCapacity) ELSE all

\* logs.append(message); keep the last 400
appended(seq, message) ==
    LET all == Append(seq, message)
    IN IF Len(all) > LogCapacity THEN SubSeq(all, Len(all) - LogCapacity + 1, Len(all)) ELSE all

\* add_log that also forgets the last error
state_add_log_clears_error(message) ==
    /\ logs' = appended(logs, message)
    /\ added' = added + 1
    /\ last_error' = None
    /\ UNCHANGED <<active, progress, status, last_cookies_dir, tmpdirs>>

state_add_log(message) ==
    /\ logs' = appended(logs, message)
    /\ added' = added + 1
    /\ UNCHANGED <<active, progress, status, last_error, last_cookies_dir, tmpdirs>>

\* set_progress without the upper limit
clamped_no_upper(value) == Max2(0, value)

clamped(value) == Max2(0, Min2(value, FullProgress))

\* set_progress that never lowers the stored percent
state_set_progress_never_lowers(value) ==
    /\ progress' = Max2(progress, clamped(value))
    /\ UNCHANGED <<active, status, logs, last_error, last_cookies_dir, tmpdirs, added>>

state_set_progress(value) ==
    /\ progress' = clamped(value)
    /\ UNCHANGED <<active, status, logs, last_error, last_cookies_dir, tmpdirs, added>>

snapshot ==
    [active |-> active, progress |-> progress, status |-> status, logs |-> logs,
     error |-> last_error]

state_store_cookies_dir(directory) ==
    /\ tmpdirs' = (IF last_cookies_dir # NoDir THEN tmpdirs \ {last_cookies_dir} ELSE tmpdirs)
                    \cup {directory}
    /\ last_cookies_dir' = directory
    /\ UNCHANGED <<active, progress, status, logs, last_error, added>>

\* ------------------------------------------------------------------ inputs
Url == <<"h", "t", "t", "p", ":", "/", "/", "x">>
BlankUrl == <<" ", " ">>

\* request.form / request.files of a POST /start
AllForms ==
    { [url |-> Url, cookies |-> TRUE],
      [url |-> Url, mode |-> "single_video", cookies |-> FALSE],
      [url |-> BlankUrl, mode |-> "single_video", cookies |-> TRUE],
      [url |-> Url, mode |-> "bogus", cookies |-> FALSE] }

\* the forms of the requests that are handled concurrently
Forms ==
    { [url |-> Url, cookies |-> TRUE],
      [url |-> BlankUrl, mode |-> "single_video", cookies |-> TRUE] }

PercentStrings ==
    { <<" ", "5", "5", "%">>, <<"1", "5", "0", "%">>, <<"-", "5", "%">>, <<"N", "/", "A">> }

\* status dictionaries yt-dlp hands to the progress hooks
\* (percent_str stands for the key "_percent_str")
AllRecords ==
    { [status |-> "downloading", percent_str |-> p] : p \in PercentStrings }
    \cup { [status |-> "downloading"],
           [status |-> "finished", filename |-> "a.mp3"],
           [status |-> "finished"],
           [status |-> "error"] }

\* the records of the jobs that run concurrently with request handlers
Records ==
    { [status |-> "downloading", percent_str |-> <<" ", "5", "5", "%">>],
      [status |-> "finished", filename |-> "a.mp3"] }

\* ------------------------------------------------- DownloadMode, request
DownloadModes ==
    {"single_song", "single_video", "playlist_songs", "playlist_videos", "compatibility"}
is_audio(mode) == mode \in {"single_song", "playlist_songs", "compatibility"}
is_playlist(mode) == mode \in {"playlist_songs", "playlist_videos"}

\* _build_request that tests the URL without stripping it
build_request_error_no_strip(form) ==
    IF Get(form, "url", <<>>) = <<>>
    THEN [kind |-> "ValueError", msg |-> MissingUrlMsg]
    ELSE IF Get(form, "mode", "single_song") \notin DownloadModes
         THEN [kind |-> "ValueError", msg |-> BadModeMsg]
         ELSE NoError

\* _build_request: the ValueError it raises, or NoError
build_request_error(form) ==
    IF Strip(Get(form, "url", <<>>)) = <<>>
    THEN [kind |-> "ValueError", msg |-> MissingUrlMsg]
    ELSE IF Get(form, "mode", "single_song") \notin DownloadModes
         THEN [kind |-> "ValueError", msg |-> BadModeMsg]
         ELSE NoError

build_request(form, cookies_path) ==
    [url |-> Strip(Get(form, "url", <<>>)),
     mode |-> Get(form, "mode", "single_song"),
     cookies_path |-> cookies_path]

NoRequest == [url |-> <<>>, mode |-> None, cookies_path |-> NoDir]
NoRecord == [status |-> None]
NoForm == [url |-> <<>>, cookies |-> FALSE]
NoCall == [builder |-> None]
NoResult == [k |-> "none"]
NoSnapshot == [k |-> "none"]

\* keys of the dictionary _build_ydl_opts returns, in insertion order,
\* without "progress_hooks" (download() does not log that one)
ydl_opt_keys(request) ==
    <<"outtmpl", "concurrent_fragment_downloads", "noplaylist", "quiet", "no_warnings",
      "ignoreerrors", "extractor_args", "user_agent", "compat_opts">>
    \o (IF request.cookies_path # NoDir THEN <<"cookiefile">> ELSE <<>>)
    \o (IF is_audio(request.mode)
        THEN <<"format", "postprocessors", "postprocessor_args", "final_ext">>
        ELSE <<"format", "merge_output_format", "postprocessors", "postprocessor_args",
               "final_ext">>)

\* ------------------------------------------------------ BackgroundDownloader
is_running == bg_thread # NoThread /\ tstate[bg_thread] = "alive"

NewThread == CHOOSE t \in ThreadIds : tstate[t] = "none" /\ \A u \in ThreadIds : u < t => tstate[u] # "none"

\* --------------------------------------------------------------------- Init
Init ==
    /\ active = FALSE
    /\ progress = 0
    /\ status = "idle"
    /\ logs = <<>>
    /\ last_error = None
    /\ last_cookies_dir = NoDir
    /\ tmpdirs = {}
    /\ bg_thread = NoThread
    /\ tstate = [t \in ThreadIds |-> "none"]
    /\ wpc = [t \in ThreadIds |-> "none"]
    /\ wreq = [t \in ThreadIds |-> NoRequest]
    /\ wrec = [t \in ThreadIds |-> NoRecord]
    /\ werr = [t \in ThreadIds |-> NoError]
    /\ wcount = [t \in ThreadIds |-> 0]
    /\ hpc = [h \in Handlers |-> "idle"]
    /\ hform = [h \in Handlers |-> NoForm]
    /\ hcookies = [h \in Handlers |-> NoDir]
    /\ hrunning = [h \in Handlers |-> FALSE]
    /\ nreq = 0
    /\ ndirs = 0
    /\ added = 0
    /\ progress_var = 0
    /\ is_downloading = FALSE
    /\ download_button = "normal"
    /\ cancel_button = "disabled"
    /\ tk_cookies_path = None
    /\ log_queue = <<>>
    /\ after_queue = <<>>
    /\ tk_dialog = None
    /\ tk_wpc = "none"
    /\ tk_werr = NoError
    /\ tk_jobs = 0
    /\ tk_count = 0
    /\ tk_cancelled = FALSE
    /\ mon_impl = None
    /\ mon_pc = "idle"
    /\ processing_complete = FALSE
    /\ mon_log = <<>>
    /\ mon_progress = <<>>
    /\ mon_jobs = 0
    /\ mon_count = 0
    /\ run_outcome = "none"
    /\ home_cookies = FALSE
    /\ plan_call = NoCall
    /\ plan_result = NoResult
    /\ plan_first = NoResult
    /\ plan_builds = <<>>
    /\ last_snapshot = NoSnapshot

\* ------------------------------------------- POST /start (start_download)
\* the request ends: its locals are gone
Return(h) ==
    /\ hpc' = [hpc EXCEPT ![h] = "idle"]
    /\ hform' = [hform EXCEPT ![h] = NoForm]
    /\ hcookies' = [hcookies EXCEPT ![h] = NoDir]
    /\ hrunning' = [hrunning EXCEPT ![h] = FALSE]

\* A request arrives and start_download evaluates background.is_running().
StartRequest(h, form) ==
    /\ hpc[h] = "idle"
    /\ nreq' = nreq + 1
    /\ hform' = [hform EXCEPT ![h] = form]
    /\ hcookies' = [hcookies EXCEPT ![h] = NoDir]
    /\ hrunning' = [hrunning EXCEPT ![h] = (status = "running")]
    /\ hpc' = [hpc EXCEPT ![h] =
                 IF is_running THEN "warn" ELSE IF form.cookies THEN "cookies" ELSE "build"]
    /\ UNCHANGED <<ds_vars, bg_thread, w_vars, ndirs, tk_vars>>

\* state.add_log("A download is already running..."); return
RejectRunning(h) ==
    /\ hpc[h] = "warn"
    /\ state_add_log(Line("already_running"))
    /\ Return(h)
    /\ UNCHANGED <<bg_thread, w_vars, nreq, ndirs, tk_vars>>

\* mkdtemp, save the upload, state.store_cookies_dir(temp_dir)
StoreCookies(h) ==
    /\ hpc[h] = "cookies"
    /\ ndirs' = ndirs + 1
    /\ hcookies' = [hcookies EXCEPT ![h] = ndirs + 1]
    /\ state_store_cookies_dir(ndirs + 1)
    /\ hpc' = [hpc EXCEPT ![h] = "build"]
    /\ UNCHANGED <<bg_thread, w_vars, hform, hrunning, nreq, tk_vars>>

\* _build_request raised ValueError: state.add_log(...)
InvalidLog(h) ==
    /\ hpc[h] = "build"
    /\ build_request_error(hform[h]) # NoError
    /\ state_add_log(LineOf("invalid", Str(build_request_error(hform[h]))))
    /\ hpc' = [hpc EXCEPT ![h] = "invalid_finish"]
    /\ UNCHANGED <<bg_thread, w_vars, hform, hrunning, hcookies, nreq, ndirs, tk_vars>>

\* ... state.finish(error=exc); return
InvalidFinish(h) ==
    /\ hpc[h] = "invalid_finish"
    /\ state_finish(build_request_error(hform[h]))
    /\ Return(h)
    /\ UNCHANGED <<bg_thread, w_vars, nreq, ndirs, tk_vars>>

\* _build_request returned: state.start()
StateStart(h) ==
    /\ hpc[h] = "build"
    /\ build_request_error(hform[h]) = NoError
    /\ state_start
    /\ hpc' = [hpc EXCEPT ![h] = "launch_log"]
    /\ UNCHANGED <<bg_thread, w_vars, hform, hrunning, hcookies, nreq, ndirs, tk_vars>>

\* state.add_log("Launching download job...")
LaunchLog(h) ==
    /\ hpc[h] = "launch_log"
    /\ state_add_log(Line("launching"))
    /\ hpc' = [hpc EXCEPT ![h] = "bg_check"]
    /\ UNCHANGED <<bg_thread, w_vars, hform, hrunning, hcookies, nreq, ndirs, tk_vars>>

\* background.start: if self.is_running(): raise RuntimeError
\* (the handler does not catch it: the request ends with an error response)
BgCheck(h) ==
    /\ hpc[h] = "bg_check"
    /\ IF is_running
       THEN Return(h)
       ELSE /\ hpc' = [hpc EXCEPT ![h] = "bg_create"]
            /\ UNCHANGED <<hform, hrunning, hcookies>>
    /\ UNCHANGED <<ds_vars, bg_thread, w_vars, nreq, ndirs, tk_vars>>

\* self._thread = threading.Thread(target=worker, daemon=True)
BgCreate(h) ==
    /\ hpc[h] = "bg_create"
    /\ \E t \in ThreadIds : tstate[t] = "none"
    /\ bg_thread' = NewThread
    /\ tstate' = [tstate EXCEPT ![NewThread] = "created"]
    /\ wreq' = [wreq EXCEPT ![NewThread] = build_request(hform[h], hcookies[h])]
    /\ hpc' = [hpc EXCEPT ![h] = "bg_start"]
    /\ hform' = [hform EXCEPT ![h] = NoForm]
    /\ hcookies' = [hcookies EXCEPT ![h] = NoDir]
    /\ UNCHANGED <<ds_vars, wpc, wrec, werr, wcount, hrunning, nreq, ndirs, tk_vars>>

\* self._thread.start(): starts whatever thread self._thread names now;
\* Thread.start() raises RuntimeError for a thread that was started before
BgStart(h) ==
    /\ hpc[h] = "bg_start"
    /\ IF tstate[bg_thread] = "created"
       THEN /\ tstate' = [tstate EXCEPT ![bg_thread] = "alive"]
            /\ wpc' = [wpc EXCEPT ![bg_thread] = "download"]
       ELSE UNCHANGED <<tstate, wpc>>
    /\ Return(h)
    /\ UNCHANGED <<ds_vars, bg_thread, wreq, wrec, werr, wcount, nreq, ndirs, tk_vars>>

\* ---------------------------------------------- progress hooks (per record)
\* progress_hook that does not remove the percent sign before float()
hook_value_keeps_sign(record) ==
    LET percent == Get(record, "percent_str", <<"0", "%">>)
        text == Strip(percent)
    IN IF FloatParses(text) THEN FloatValue(text) ELSE 0

\* float(str(percent).strip().rstrip("%")), 0.0 on ValueError
hook_value(record) ==
    LET percent == Get(record, "percent_str", <<"0", "%">>)
        text == RStripPercent(Strip(percent))
    IN IF FloatParses(text) THEN FloatValue(text) ELSE 0

\* the line StreamSaavyDownloader._progress_logger writes for a record
progress_logger_line(record) ==
    IF record.status = "downloading"
    THEN [k |-> "downloading", pct |-> Get(record, "percent_str", <<"0", "%">>)]
    ELSE IF record.status = "finished"
         THEN LineOf("download_finished", Get(record, "filename", None))
         ELSE Line("engine_error")

RECURSIVE append_all(_, _)
append_all(seq, lines) ==
    IF lines = <<>> THEN seq ELSE append_all(appended(seq, Head(lines)), Tail(lines))

\* ------------------------------------------- worker thread (downloader.py)
\* on_complete(error): state.add_log(...)
on_complete_log(error) ==
    state_add_log(IF error = NoError THEN Line("all_finished") ELSE LineOf("failed", Str(error)))

\* download(): request.save_path.mkdir raises; the worker catches the
\* exception and calls done_callback(error), which first writes a log line
MkdirFails(t) ==
    /\ tstate[t] = "alive" /\ wpc[t] = "download"
    /\ werr' = [werr EXCEPT ![t] = MkdirError]
    /\ on_complete_log(MkdirError)
    /\ wpc' = [wpc EXCEPT ![t] = "done_finish"]
    /\ UNCHANGED <<bg_thread, tstate, wreq, wrec, wcount, h_vars, tk_vars>>

\* download(): "Starting yt-dlp with the following options:" and one line
\* per option (the lines of this loop are written in one step here)
LogOptions(t) ==
    /\ tstate[t] = "alive" /\ wpc[t] = "download"
    /\ LET keys == ydl_opt_keys(wreq[t])
           lines == <<Line("starting")>> \o [i \in 1 .. Len(keys) |-> LineOf("option", keys[i])]
       IN /\ logs' = append_all(logs, lines)
          /\ added' = added + Len(lines)
    /\ wpc' = [wpc EXCEPT ![t] = "engine"]
    /\ UNCHANGED <<active, progress, status, last_error, last_cookies_dir, tmpdirs,
                   bg_thread, tstate, wreq, wrec, werr, wcount, h_vars, tk_vars>>

\* the hooks registered in the opposite order: the line of _progress_logger
\* is written before the caller's progress callback has run
EngineRecord_logger_first(t, record) ==
    /\ tstate[t] = "alive" /\ wpc[t] = "engine"
    /\ wcount' = [wcount EXCEPT ![t] = wcount[t] + 1]
    /\ wrec' = [wrec EXCEPT ![t] = record]
    /\ state_add_log(progress_logger_line(record))
    /\ wpc' = [wpc EXCEPT ![t] = IF record.status = "error" THEN "engine" ELSE "logger"]
    /\ UNCHANGED <<bg_thread, tstate, wreq, werr, h_vars, tk_vars>>

\* yt-dlp reports a record to the hooks.  The first hook is
\* start_download.progress_hook; this step is its first change to the state.
\* It ignores an "error" record, so for that record the step is the line of
\* the second hook.
EngineRecord(t, record) ==
    /\ tstate[t] = "alive" /\ wpc[t] = "engine"
    /\ wcount' = [wcount EXCEPT ![t] = wcount[t] + 1]
    /\ wrec' = [wrec EXCEPT ![t] = record]
    /\ IF record.status = "downloading"
       THEN /\ state_set_progress(hook_value(record))
            /\ wpc' = [wpc EXCEPT ![t] = "logger"]
       ELSE IF record.status = "finished"
            THEN IF Truthy(Get(record, "filename", None))
                 THEN /\ state_add_log(LineOf("finished", record.filename))
                      /\ wpc' = [wpc EXCEPT ![t] = "finished_progress"]
                 ELSE /\ state_set_progress(FullProgress)
                      /\ wpc' = [wpc EXCEPT ![t] = "logger"]
            ELSE /\ state_add_log(progress_logger_line(record))
                 /\ wpc' = [wpc EXCEPT ![t] = "engine"]
    /\ UNCHANGED <<bg_thread, tstate, wreq, werr, h_vars, tk_vars>>

\* progress_hook for "finished" that logs the filename and leaves the percent
FinishedProgress_keeps_percent(t) ==
    /\ tstate[t] = "alive" /\ wpc[t] = "finished_progress"
    /\ wpc' = [wpc EXCEPT ![t] = "logger"]
    /\ UNCHANGED <<ds_vars, bg_thread, tstate, wreq, wrec, werr, wcount, h_vars, tk_vars>>

\* progress_hook, "finished" with a filename: state.set_progress(100.0)
FinishedProgress(t) ==
    /\ tstate[t] = "alive" /\ wpc[t] = "finished_progress"
    /\ state_set_progress(FullProgress)
    /\ wpc' = [wpc EXCEPT ![t] = "logger"]
    /\ UNCHANGED <<bg_thread, tstate, wreq, wrec, werr, wcount, h_vars, tk_vars>>

\* the second hook, _progress_logger
ProgressLogger(t) ==
    /\ tstate[t] = "alive" /\ wpc[t] = "logger"
    /\ state_add_log(progress_logger_line(wrec[t]))
    /\ wpc' = [wpc EXCEPT ![t] = "engine"]
    /\ UNCHANGED <<bg_thread, tstate, wreq, wrec, werr, wcount, h_vars, tk_vars>>

\* ydl.download returns; the worker calls done_callback(None), which first
\* writes a log line
EngineReturn(t) ==
    /\ tstate[t] = "alive" /\ wpc[t] = "engine"
    /\ on_complete_log(NoError)
    /\ wpc' = [wpc EXCEPT ![t] = "done_finish"]
    /\ UNCHANGED <<bg_thread, tstate, wreq, wrec, werr, wcount, h_vars, tk_vars>>

\* download() explains a DownloadError about an unavailable format in the
\* log before it re-raises it
needs_hint(exc) ==
    /\ exc.kind = "DownloadError"
    /\ \/ Contains(Str(exc), "Only images are available")
       \/ Contains(Str(exc), "Requested format is not available")

\* ydl.download raises; the next change to the state is the hint of
\* download() or else the log line of done_callback(error)
EngineRaise(t, exc) ==
    /\ tstate[t] = "alive" /\ wpc[t] = "engine"
    /\ werr' = [werr EXCEPT ![t] = exc]
    /\ IF needs_hint(exc)
       THEN /\ state_add_log(Line("format_hint"))
            /\ wpc' = [wpc EXCEPT ![t] = "done_log"]
       ELSE /\ on_complete_log(exc)
            /\ wpc' = [wpc EXCEPT ![t] = "done_finish"]
    /\ UNCHANGED <<bg_thread, tstate, wreq, wrec, wcount, h_vars, tk_vars>>

\* worker: done_callback(error) = on_complete: state.add_log(...)
OnCompleteLog(t) ==
    /\ tstate[t] = "alive" /\ wpc[t] = "done_log"
    /\ on_complete_log(werr[t])
    /\ wpc' = [wpc EXCEPT ![t] = "done_finish"]
    /\ UNCHANGED <<bg_thread, tstate, wreq, wrec, werr, wcount, h_vars, tk_vars>>

\* on_complete: state.finish(error)
OnCompleteFinish(t) ==
    /\ tstate[t] = "alive" /\ wpc[t] = "done_finish"
    /\ state_finish(werr[t])
    /\ wpc' = [wpc EXCEPT ![t] = "exit"]
    /\ UNCHANGED <<bg_thread, tstate, wreq, wrec, werr, wcount, h_vars, tk_vars>>

\* the worker function returns and the thread ends
ThreadExit(t) ==
    /\ tstate[t] = "alive" /\ wpc[t] = "exit"
    /\ tstate' = [tstate EXCEPT ![t] = "dead"]
    /\ wpc' = [wpc EXCEPT ![t] = "none"]
    /\ wreq' = [wreq EXCEPT ![t] = NoRequest]
    /\ wrec' = [wrec EXCEPT ![t] = NoRecord]
    /\ werr' = [werr EXCEPT ![t] = NoError]
    /\ wcount' = [wcount EXCEPT ![t] = 0]
    /\ UNCHANGED <<ds_vars, bg_thread, h_vars, tk_vars>>

\* --------------------------------------------------------------------- Next
\* Requests are served by the lowest free server thread.
FreeHandler(h) == \A g \in Handlers : hpc[g] = "idle" => h <= g

HandlerStep(h) ==
    \/ RejectRunning(h)
    \/ StoreCookies(h)
    \/ InvalidLog(h)
    \/ InvalidFinish(h)
    \/ StateStart(h)
    \/ LaunchLog(h)
    \/ BgCheck(h)
    \/ BgCreate(h)
    \/ BgStart(h)

WorkerStep(t) ==
    \/ MkdirFails(t)
    \/ LogOptions(t)
    \/ FinishedProgress(t)
    \/ ProgressLogger(t)
    \/ EngineReturn(t)
    \/ OnCompleteLog(t)
    \/ OnCompleteFinish(t)
    \/ ThreadExit(t)

\* Concurrent request handlers and workers.
Arrive(h, form) == nreq < MaxRequests /\ FreeHandler(h) /\ StartRequest(h, form)
Report(t, record) == wcount[t] < MaxRecords /\ EngineRecord(t, record)

Next ==
    \/ \E h \in Handlers, form \in Forms : Arrive(h, form)
    \/ \E h \in Handlers : HandlerStep(h)
    \/ \E t \in ThreadIds : WorkerStep(t)
    \/ \E t \in ThreadIds, record \in Records : Report(t, record)
    \/ \E t \in ThreadIds, exc \in EngineErrors : EngineRaise(t, exc)

Spec == Init /\ [][Next]_vars

\* The same threads under a fair scheduler: a request handler that can take
\* its next step and a worker that can take its next step eventually do; the
\* engine call of a worker is among these steps, so it eventually returns or
\* raises.  Nothing obliges a client to send a request or the engine to
\* report a record.
Fairness ==
    /\ \A h \in Handlers : WF_vars(HandlerStep(h))
    /\ \A t \in ThreadIds : WF_vars(WorkerStep(t))

SpecFair == Spec /\ Fairness

\* One request at a time (a server without request threads), all records.
SerialArrive(form) == nreq < MaxJobs /\ StartRequest(1, form)
SerialReport(t, record) == wcount[t] < MaxJobRecords /\ EngineRecord(t, record)

NextSerial ==
    \/ \E form \in AllForms : SerialArrive(form)
    \/ HandlerStep(1)
    \/ \E t \in ThreadIds : WorkerStep(t)
    \/ \E t \in ThreadIds, record \in AllRecords : SerialReport(t, record)
    \/ \E t \in ThreadIds, exc \in AllEngineErrors : EngineRaise(t, exc)

SpecSerial == Init /\ [][NextSerial]_vars

\* ---------------------------------------------------- the state as an object
\* Any caller, any order of calls.  add_log does not look at its message, so
\* the messages are numbered: the n-th message since the log was last emptied
\* is Message(n).
Message(n) == [k |-> "message", n |-> n]

ProgressValues == {0 - 5, 0, 55, 101, 150}
CallErrors == {NoError, [kind |-> "DownloadError", msg |-> NetworkMsg]}

CallReset == state_reset /\ UNCHANGED <<proc_vars, tk_vars>>
CallStart == state_start /\ UNCHANGED <<proc_vars, tk_vars>>
CallFinish(error) == state_finish(error) /\ UNCHANGED <<proc_vars, tk_vars>>
CallAddLog == state_add_log(Message(added + 1)) /\ UNCHANGED <<proc_vars, tk_vars>>
CallSetProgress(value) == state_set_progress(value) /\ UNCHANGED <<proc_vars, tk_vars>>

\* StreamSaavyApp._update_progress (ui.py)
update_progress(percentage) ==
    /\ progress_var' = Max2(0, Min2(percentage, FullProgress))
    /\ UNCHANGED <<ds_vars, proc_vars, last_snapshot, plan_vars, mon_vars, win_vars>>

NextCalls ==
    \/ CallReset
    \/ CallStart
    \/ \E error \in CallErrors : CallFinish(error)
    \/ added < MaxAdds /\ CallAddLog
    \/ \E value \in ProgressValues : CallSetProgress(value)
    \/ \E value \in ProgressValues : update_progress(value)

SpecCalls == Init /\ [][NextCalls]_vars

\* A client of the object that also takes snapshots (GET /status, index) and
\* keeps the last one; few log lines.
MaxFrameAdds == 3

\* state.snapshot(): the returned dictionary holds list(self.logs), a new list
CallSnapshot ==
    /\ last_snapshot' = snapshot
    /\ UNCHANGED <<ds_vars, proc_vars, progress_var, win_vars, mon_vars, plan_vars>>

NextFrames ==
    \/ CallReset
    \/ CallStart
    \/ \E error \in CallErrors : CallFinish(error)
    \/ added < MaxFrameAdds /\ CallAddLog
    \/ \E value \in ProgressValues : CallSetProgress(value)
    \/ CallSnapshot

SpecFrames == Init /\ [][NextFrames]_vars

\* --------------------------------------------------- the Tk window (ui.py)
\* Every handler of the window runs on the main thread, from its first line
\* to its last, so each is one step; the worker thread only puts messages on
\* the log queue and callbacks on the queue of self.after.  A message box
\* blocks its handler until it is closed, so it is gone when the next
\* handler runs.
MaxTkJobs == 2
MaxTkRecords == 2
MaxTkLines == 1

TkUrls == {Url, BlankUrl}
TkRecords ==
    { [status |-> "downloading", percent_str |-> <<" ", "5", "5", "%">>],
      [status |-> "downloading", percent_str |-> <<"N", "/", "A">>],
      [status |-> "finished", filename |-> "a.mp3"] }
TkErrors == { [kind |-> "DownloadError", msg |-> NetworkMsg] }

\* import_cookies: the chosen file is readable, or it is not
ImportCookies(readable) ==
    /\ Len(log_queue) < MaxTkLines
    /\ IF readable
       THEN /\ tk_cookies_path' = "present"
            /\ log_queue' = Append(log_queue, Line("cookies_loaded"))
            /\ tk_dialog' = None
       ELSE /\ tk_dialog' = "invalid_cookies"
            /\ log_queue' = Append(log_queue, Line("invalid_cookies"))
            /\ UNCHANGED tk_cookies_path
    /\ UNCHANGED <<ds_vars, proc_vars, last_snapshot, plan_vars, mon_vars, progress_var, is_downloading, download_button,
                   cancel_button, after_queue, tk_wpc, tk_werr, tk_jobs, tk_count,
                   tk_cancelled>>

\* the cookies file is deleted from disk after it was imported
RemoveCookiesFile ==
    /\ tk_cookies_path = "present"
    /\ tk_cookies_path' = "gone"
    /\ UNCHANGED <<ds_vars, proc_vars, last_snapshot, plan_vars, mon_vars, progress_var, is_downloading, download_button,
                   cancel_button, log_queue, after_queue, tk_dialog, tk_wpc, tk_werr,
                   tk_jobs, tk_count, tk_cancelled>>

\* start_download (the "Start download" button); dir_ok: save_path exists or
\* can be created
TkStartDownload(url, dir_ok) ==
    /\ download_button = "normal"
    /\ IF Strip(url) = <<>>
       THEN /\ tk_dialog' = "missing_url"
            /\ UNCHANGED <<progress_var, is_downloading, download_button, cancel_button,
                           tk_cookies_path, log_queue, tk_wpc, tk_jobs, tk_count, tk_cancelled>>
       ELSE IF ~dir_ok
       THEN /\ tk_dialog' = "invalid_directory"
            /\ UNCHANGED <<progress_var, is_downloading, download_button, cancel_button,
                           tk_cookies_path, log_queue, tk_wpc, tk_jobs, tk_count, tk_cancelled>>
       ELSE IF tk_cookies_path = "gone"
       THEN /\ tk_dialog' = "cookies_missing"
            /\ tk_cookies_path' = None
            /\ UNCHANGED <<progress_var, is_downloading, download_button, cancel_button,
                           log_queue, tk_wpc, tk_jobs, tk_count, tk_cancelled>>
       ELSE IF is_downloading
       THEN /\ tk_dialog' = "busy"
            /\ UNCHANGED <<progress_var, is_downloading, download_button, cancel_button,
                           tk_cookies_path, log_queue, tk_wpc, tk_jobs, tk_count, tk_cancelled>>
       ELSE /\ is_downloading' = TRUE
            /\ download_button' = "disabled"
            /\ cancel_button' = "normal"
            /\ log_queue' = Append(log_queue, Line("launching"))
            /\ progress_var' = Max2(0, Min2(0, FullProgress))
            /\ tk_wpc' = "engine"
            /\ tk_jobs' = tk_jobs + 1
            /\ tk_count' = 0
            /\ tk_cancelled' = FALSE
            /\ tk_dialog' = None
            /\ UNCHANGED tk_cookies_path
    /\ UNCHANGED <<ds_vars, proc_vars, last_snapshot, plan_vars, mon_vars, after_queue, tk_werr>>

\* cancel_download (the "Cancel" button)
CancelDownload ==
    /\ cancel_button = "normal"
    /\ tk_dialog' = "cancel_info"
    /\ tk_cancelled' = TRUE
    /\ UNCHANGED <<ds_vars, proc_vars, last_snapshot, plan_vars, mon_vars, progress_var, is_downloading, download_button,
                   cancel_button, tk_cookies_path, log_queue, after_queue, tk_wpc,
                   tk_werr, tk_jobs, tk_count>>

\* worker, progress_hook: the engine reports a record
TkEngineRecord(record) ==
    /\ tk_wpc = "engine"
    /\ tk_count' = tk_count + 1
    /\ IF record.status = "downloading"
       THEN /\ after_queue' = Append(after_queue, [k |-> "progress", value |-> hook_value(record)])
            /\ UNCHANGED <<log_queue, tk_wpc>>
       ELSE IF record.status = "finished"
            THEN IF Truthy(Get(record, "filename", None))
                 THEN /\ log_queue' = Append(log_queue, LineOf("finished", record.filename))
                      /\ tk_wpc' = "finished_progress"
                      /\ UNCHANGED after_queue
                 ELSE /\ after_queue' = Append(after_queue, [k |-> "progress", value |-> FullProgress])
                      /\ UNCHANGED <<log_queue, tk_wpc>>
            ELSE UNCHANGED <<after_queue, log_queue, tk_wpc>>
    /\ UNCHANGED <<ds_vars, proc_vars, last_snapshot, plan_vars, mon_vars, progress_var, is_downloading, download_button,
                   cancel_button, tk_cookies_path, tk_dialog, tk_werr, tk_jobs,
                   tk_cancelled>>

\* progress_hook, "finished" with a filename: self.after(0, ... 100.0)
TkFinishedProgress ==
    /\ tk_wpc = "finished_progress"
    /\ after_queue' = Append(after_queue, [k |-> "progress", value |-> FullProgress])
    /\ tk_wpc' = "engine"
    /\ UNCHANGED <<ds_vars, proc_vars, last_snapshot, plan_vars, mon_vars, progress_var, is_downloading, download_button,
                   cancel_button, tk_cookies_path, log_queue, tk_dialog, tk_werr,
                   tk_jobs, tk_count, tk_cancelled>>

\* worker: download_media returns; finally: self.after(0, _finish_download)
TkEngineReturn ==
    /\ tk_wpc = "engine"
    /\ after_queue' = Append(after_queue, [k |-> "finish", error |-> NoError])
    /\ tk_wpc' = "none"
    /\ UNCHANGED <<ds_vars, proc_vars, last_snapshot, plan_vars, mon_vars, progress_var, is_downloading, download_button,
                   cancel_button, tk_cookies_path, log_queue, tk_dialog, tk_werr,
                   tk_jobs, tk_count, tk_cancelled>>

\* worker: download_media raises; self.queue_log(f"ERROR: {exc}")
TkEngineRaise(exc) ==
    /\ tk_wpc = "engine"
    /\ tk_werr' = exc
    /\ log_queue' = Append(log_queue, LineOf("error", Str(exc)))
    /\ tk_wpc' = "raised"
    /\ UNCHANGED <<ds_vars, proc_vars, last_snapshot, plan_vars, mon_vars, progress_var, is_downloading, download_button,
                   cancel_button, tk_cookies_path, after_queue, tk_dialog, tk_jobs,
                   tk_count, tk_cancelled>>

\* worker, after an exception; finally: self.after(0, _finish_download)
TkRaisedFinish ==
    /\ tk_wpc = "raised"
    /\ after_queue' = Append(after_queue, [k |-> "finish", error |-> tk_werr])
    /\ tk_wpc' = "none"
    /\ tk_werr' = NoError
    /\ UNCHANGED <<ds_vars, proc_vars, last_snapshot, plan_vars, mon_vars, progress_var, is_downloading, download_button,
                   cancel_button, tk_cookies_path, log_queue, tk_dialog, tk_jobs,
                   tk_count, tk_cancelled>>

\* _finish_download that leaves the progress bar where it is
finish_download_keeps_progress(error) ==
    /\ is_downloading' = FALSE
    /\ download_button' = "normal"
    /\ cancel_button' = "disabled"
    /\ progress_var' = progress_var
    /\ IF error # NoError
       THEN /\ tk_dialog' = "download_failed"
            /\ UNCHANGED log_queue
       ELSE /\ tk_dialog' = "download_complete"
            /\ log_queue' = log_queue \o <<Line("download_complete"), Line("pipeline_completed")>>

\* _finish_download(error=...)
finish_download(error) ==
    /\ is_downloading' = FALSE
    /\ download_button' = "normal"
    /\ cancel_button' = "disabled"
    /\ IF error # NoError
       THEN /\ tk_dialog' = "download_failed"
            /\ progress_var' = Max2(0, Min2(0, FullProgress))
            /\ UNCHANGED log_queue
       ELSE /\ tk_dialog' = "download_complete"
            /\ progress_var' = Max2(0, Min2(FullProgress, FullProgress))
            /\ log_queue' = log_queue \o <<Line("download_complete"), Line("pipeline_completed")>>

\* the main loop runs the oldest callback of self.after(0, ...)
AfterCallback ==
    /\ after_queue # <<>>
    /\ after_queue' = Tail(after_queue)
    /\ IF Head(after_queue).k = "progress"
       THEN /\ progress_var' = Max2(0, Min2(Head(after_queue).value, FullProgress))
            /\ tk_dialog' = None
            /\ UNCHANGED <<is_downloading, download_button, cancel_button, log_queue>>
       ELSE finish_download(Head(after_queue).error)
    /\ UNCHANGED <<ds_vars, proc_vars, last_snapshot, plan_vars, mon_vars, tk_cookies_path, tk_wpc, tk_werr, tk_jobs,
                   tk_count, tk_cancelled>>

\* _process_log_queue: the queued messages are moved to the text widget
ProcessLogQueue ==
    /\ log_queue # <<>>
    /\ log_queue' = <<>>
    /\ tk_dialog' = None
    /\ UNCHANGED <<ds_vars, proc_vars, last_snapshot, plan_vars, mon_vars, progress_var, is_downloading, download_button,
                   cancel_button, tk_cookies_path, after_queue, tk_wpc, tk_werr,
                   tk_jobs, tk_count, tk_cancelled>>

TkStart(url, dir_ok) == tk_jobs < MaxTkJobs /\ TkStartDownload(url, dir_ok)
TkReport(record) == tk_count < MaxTkRecords /\ TkEngineRecord(record)

NextTk ==
    \/ \E readable \in BOOLEAN : ImportCookies(readable)
    \/ RemoveCookiesFile
    \/ \E url \in TkUrls, dir_ok \in BOOLEAN : TkStart(url, dir_ok)
    \/ CancelDownload
    \/ \E record \in TkRecords : TkReport(record)
    \/ TkFinishedProgress
    \/ TkEngineReturn
    \/ \E exc \in TkErrors : TkEngineRaise(exc)
    \/ TkRaisedFinish
    \/ AfterCallback
    \/ ProcessLogQueue

SpecTk == Init /\ [][NextTk]_vars

\* ------------------------- monitor_progress (download_engine.py, download.py)
\* The two modules hold two versions of monitor_progress; they differ in the
\* test that picks the tokens of a line to parse as a percentage.  A run reads
\* the lines of the engine's output one by one; the whole body of the loop
\* for one line is one step (the function shares nothing with other threads
\* but its two handlers).
MaxMonJobs == 2
MaxMonLines == 3

MonImpls == {"download_engine", "download"}

Triggers ==
    { <<"M", "e", "r", "g", "i", "n", "g", " ", "f", "o", "r", "m", "a", "t", "s", " ",
        "i", "n", "t", "o">>,
      <<"T", "r", "a", "n", "s", "c", "o", "d", "i", "n", "g">>,
      <<"E", "x", "t", "r", "a", "c", "t", "i", "n", "g", " ", "a", "u", "d", "i", "o">> }

\* lines of the engine's output as read from process.stdout
MonLines ==
    { <<"5", "0", "%", "\n">>,
      <<"1", "0", "%", " ", "2", "0", "%">>,
      <<"x", "%", " ", "6", "0", "%">>,
      <<"%", "5", "0", " ", "6", "0", "%">>,
      <<"n", "o", "%", "p", "e">>,
      <<" ", " ", "\n">>,
      <<"T", "r", "a", "n", "s", "c", "o", "d", "i", "n", "g">>,
      <<"E", "x", "t", "r", "a", "c", "t", "i", "n", "g", " ", "a", "u", "d", "i", "o",
        " ", "7", "0", "%", "\n">>,
      <<"M", "e", "r", "g", "i", "n", "g", " ", "f", "o", "r", "m", "a", "t", "s", " ",
        "i", "n", "t", "o", " ", "a">> }

HasChar(s, c) == \E i \in 1 .. Len(s) : s[i] = c

\* needle in s
HasSubstring(s, needle) ==
    \E i \in 1 .. (Len(s) - Len(needle) + 1) : SubSeq(s, i, i + Len(needle) - 1) = needle

\* str.split(): the runs of non-whitespace characters
RECURSIVE Split(_)
Split(s) ==
    LET t == LStrip(s)
        RECURSIVE WordLen(_)
        WordLen(i) == IF i < Len(t) /\ t[i + 1] \notin Whitespace THEN WordLen(i + 1) ELSE i
        n == WordLen(0)
    IN IF t = <<>> THEN <<>> ELSE <<SubSeq(t, 1, n)>> \o Split(SubSeq(t, n + 1, Len(t)))

\* str.strip("%")
RECURSIVE LStripPercent(_)
LStripPercent(s) == IF s # <<>> /\ Head(s) = "%" THEN LStripPercent(Tail(s)) ELSE s
StripPercent(s) == RStripPercent(LStripPercent(s))

\* the test on a token: part.endswith("%") (download_engine.py), "%" in part
\* (download.py)
is_percent_token(impl, part) ==
    IF impl = "download_engine" THEN part # <<>> /\ part[Len(part)] = "%" ELSE HasChar(part, "%")

\* the loop over line.split(): the values handed to progress_handler
RECURSIVE first_percentage(_, _)
first_percentage(impl, parts) ==
    IF parts = <<>>
    THEN <<>>
    ELSE IF is_percent_token(impl, Head(parts)) /\ FloatParses(StripPercent(Head(parts)))
         THEN <<FloatValue(StripPercent(Head(parts)))>>
         ELSE first_percentage(impl, Tail(parts))

line_percentages(impl, line) ==
    IF HasChar(line, "%") THEN first_percentage(impl, Split(line)) ELSE <<>>

has_trigger(line) == \E trigger \in Triggers : HasSubstring(line, trigger)

\* the stage message written on every line with a trigger
stage_messages_ungated(line, complete) ==
    IF has_trigger(line) THEN <<Line("transcoding")>> ELSE <<>>

\* the calls of log_handler("Transcoding, please wait...") for a line
stage_messages(line, complete) ==
    IF has_trigger(line) /\ ~complete THEN <<Line("transcoding")>> ELSE <<>>

\* run_download calls monitor_progress(process, ...)
MonitorBegin(impl) ==
    /\ mon_pc = "idle" /\ run_outcome # "running"
    /\ run_outcome' = "running"
    /\ mon_impl' = impl
    /\ mon_pc' = "reading"
    /\ processing_complete' = FALSE
    /\ mon_log' = <<>>
    /\ mon_progress' = <<>>
    /\ mon_jobs' = mon_jobs + 1
    /\ mon_count' = 0
    /\ UNCHANGED <<ds_vars, proc_vars, last_snapshot, plan_vars, progress_var, win_vars>>

\* one pass of "for raw_line in process.stdout"
MonitorLine(raw_line) ==
    /\ mon_pc = "reading"
    /\ mon_count' = mon_count + 1
    /\ LET line == Strip(raw_line)
       IN IF line = <<>>
          THEN UNCHANGED <<mon_log, mon_progress, processing_complete>>
          ELSE /\ mon_log' = mon_log \o <<LineOf("line", line)>>
                                \o stage_messages(line, processing_complete)
               /\ mon_progress' = mon_progress \o line_percentages(mon_impl, line)
               /\ processing_complete' = (processing_complete \/ has_trigger(line))
    /\ UNCHANGED <<ds_vars, proc_vars, last_snapshot, plan_vars, progress_var, win_vars, mon_impl, mon_pc, mon_jobs,
                   run_outcome>>

\* the completion message written when the loop ends, before the last
\* progress value
MonitorEnd_completion_first ==
    /\ mon_pc = "reading"
    /\ mon_log' = Append(mon_log, Line("completed"))
    /\ mon_pc' = "completing"
    /\ UNCHANGED <<ds_vars, proc_vars, last_snapshot, plan_vars, progress_var, win_vars, mon_impl, processing_complete,
                   mon_progress, mon_jobs, mon_count, run_outcome>>

\* the output ends: progress_handler(100.0)
MonitorEnd ==
    /\ mon_pc = "reading"
    /\ mon_progress' = Append(mon_progress, FullProgress)
    /\ mon_pc' = "completing"
    /\ UNCHANGED <<ds_vars, proc_vars, last_snapshot, plan_vars, progress_var, win_vars, mon_impl, processing_complete,
                   mon_log, mon_jobs, mon_count, run_outcome>>

\* log_handler(completion_message); monitor_progress returns
MonitorComplete ==
    /\ mon_pc = "completing"
    /\ mon_log' = Append(mon_log, Line("completed"))
    /\ mon_pc' = "idle"
    /\ UNCHANGED <<ds_vars, proc_vars, last_snapshot, plan_vars, progress_var, win_vars, mon_impl, processing_complete,
                   mon_progress, mon_jobs, mon_count, run_outcome>>

\* run_download: return_code = process.wait(); a return code other than 0
\* raises CalledProcessError, 0 lets run_download return
ProcessWait(return_code) ==
    /\ mon_pc = "idle" /\ run_outcome = "running"
    /\ run_outcome' = IF return_code # 0 THEN "raised" ELSE "returned"
    /\ UNCHANGED <<ds_vars, proc_vars, last_snapshot, plan_vars, progress_var, win_vars, mon_impl, mon_pc,
                   processing_complete, mon_log, mon_progress, mon_jobs, mon_count>>

\* exit statuses of the engine process
ReturnCodes == {0, 1}

MonitorRun(impl) == mon_jobs < MaxMonJobs /\ MonitorBegin(impl)
MonitorRead(raw_line) == mon_count < MaxMonLines /\ MonitorLine(raw_line)

NextMonitor ==
    \/ \E impl \in MonImpls : MonitorRun(impl)
    \/ \E raw_line \in MonLines : MonitorRead(raw_line)
    \/ MonitorEnd
    \/ MonitorComplete
    \/ \E return_code \in ReturnCodes : ProcessWait(return_code)

SpecMonitor == Init /\ [][NextMonitor]_vars

\* --------- plan builders (downloader.py, download_engine.py, download.py)
\* A Python dict is the sequence of its <<key, value>> pairs in insertion
\* order and a list is a sequence.  Texts the builders take apart (bitrate,
\* resolution) are sequences of characters, other texts are strings; a
\* formatted text is the sequence of its pieces.  A Path is the sequence of
\* its components.  A build either returns a value or raises.
USER_AGENT ==
    "Mozilla/5.0 (Windows NT 10.0; Win64; x64) AppleWebKit/537.36 (KHTML, like Gecko) Chrome/122.0 Safari/537.36"
AUDIO_FORMAT_SELECTOR == "bestaudio[ext=m4a]/bestaudio[ext=webm]/best[protocol*=https]"
OutputTemplate == "%(title)s.%(ext)s"
DefaultQuality == <<"2", "5", "6">>
DefaultResolution == <<"1", "0", "8", "0">>

Returned(value) == [k |-> "returned", value |-> value]
ReturnedNone == [k |-> "returned_none"]
Raised(error) == [k |-> "raised", error |-> error]

\* str.lower()
UpperCase ==
    <<"A", "B", "C", "D", "E", "F", "G", "H", "I", "J", "K", "L", "M", "N", "O", "P", "Q",
      "R", "S", "T", "U", "V", "W", "X", "Y", "Z">>
LowerCase ==
    <<"a", "b", "c", "d", "e", "f", "g", "h", "i", "j", "k", "l", "m", "n", "o", "p", "q",
      "r", "s", "t", "u", "v", "w", "x", "y", "z">>
LowerChar(c) ==
    IF \E i \in 1 .. Len(UpperCase) : UpperCase[i] = c
    THEN LowerCase[CHOOSE i \in 1 .. Len(UpperCase) : UpperCase[i] = c]
    ELSE c
Lower(s) == [i \in 1 .. Len(s) |-> LowerChar(s[i])]

\* "".join(ch for ch in s if ch.isdigit())
IsDigit(c) == c \in Digits
OnlyDigits(s) == SelectSeq(s, IsDigit)

\* dict operations
DictHas(d, key) == \E i \in 1 .. Len(d) : d[i][1] = key
DictGet(d, key) == d[CHOOSE i \in 1 .. Len(d) : d[i][1] = key][2]
DictSet(d, key, value) ==
    IF DictHas(d, key)
    THEN [i \in 1 .. Len(d) |-> IF d[i][1] = key THEN <<key, value>> ELSE d[i]]
    ELSE Append(d, <<key, value>>)
RECURSIVE DictUpdate(_, _)
DictUpdate(d, other) ==
    IF other = <<>> THEN d ELSE DictUpdate(DictSet(d, Head(other)[1], Head(other)[2]), Tail(other))
DictKeys(d) == [i \in 1 .. Len(d) |-> d[i][1]]

\* DownloadRequest.normalized_audio_bitrate
normalized_audio_bitrate(request) ==
    LET bitrate == Lower(Strip(request.audio_bitrate))
    IN IF bitrate # <<>> /\ bitrate[Len(bitrate)] = "k" THEN bitrate ELSE Append(bitrate, "k")

\* DownloadRequest.normalized_video_resolution
normalized_video_resolution(request) ==
    IF OnlyDigits(request.video_resolution) # <<>>
    THEN OnlyDigits(request.video_resolution)
    ELSE DefaultResolution

\* StreamSaavyDownloader._audio_opts
audio_opts(request) ==
    LET bitrate == normalized_audio_bitrate(request)
        quality == IF OnlyDigits(bitrate) # <<>> THEN OnlyDigits(bitrate) ELSE DefaultQuality
    IN << <<"format", AUDIO_FORMAT_SELECTOR>>,
          <<"postprocessors",
            << << <<"key", "FFmpegExtractAudio">>,
                  <<"preferredcodec", "mp3">>,
                  <<"preferredquality", quality>> >> >> >>,
          <<"postprocessor_args",
            << <<"FFmpegExtractAudio", <<"-b:a", bitrate, "-ar", "44100">> >> >> >>,
          <<"final_ext", "mp3">> >>

\* StreamSaavyDownloader._compatibility_opts
compatibility_opts(request) == audio_opts(request)

\* StreamSaavyDownloader._video_opts
video_opts(request) ==
    LET resolution == normalized_video_resolution(request)
    IN << <<"format",
            <<"bestvideo[ext=mp4][height<=", resolution, "][fps<=60]+bestaudio[ext=m4a]/",
              "bestvideo[height<=", resolution, "][fps<=60]+bestaudio/best[ext=mp4]/best">> >>,
          <<"merge_output_format", "mp4">>,
          <<"postprocessors",
            << << <<"key", "FFmpegVideoConvertor">>, <<"preferedformat", "mp4">> >> >> >>,
          <<"postprocessor_args",
            << <<"FFmpegVideoConvertor",
                 <<"-map", "0:v:0?", "-map", "0:a:0?", "-vf",
                   <<"scale=-2:", resolution, ":force_original_aspect_ratio=decrease">>,
                   "-c:v", "libx264", "-preset", "medium", "-crf", "19", "-c:a", "aac",
                   "-b:a", "192k", "-movflags", "+faststart">> >> >> >>,
          <<"final_ext", "mp4">> >>

\* StreamSaavyDownloader._build_ydl_opts
build_ydl_opts(request, hooks) ==
    LET base ==
            << <<"outtmpl", Append(request.save_path, OutputTemplate)>>,
               <<"progress_hooks", hooks>>,
               <<"concurrent_fragment_downloads", 4>>,
               <<"noplaylist", ~is_playlist(request.mode)>>,
               <<"quiet", TRUE>>,
               <<"no_warnings", TRUE>>,
               <<"ignoreerrors", request.mode = "compatibility">>,
               <<"extractor_args", << <<"youtube", << <<"player_client", <<"web">> >> >> >> >> >>,
               <<"user_agent", USER_AGENT>>,
               <<"compat_opts", {"manifestless"}>> >>
        with_cookies ==
            IF request.cookies_path # NoDir
            THEN DictSet(base, "cookiefile", request.cookies_path)
            ELSE base
        with_mode ==
            DictUpdate(with_cookies,
                       IF request.mode = "compatibility"
                       THEN compatibility_opts(request)
                       ELSE IF is_audio(request.mode)
                            THEN audio_opts(request)
                            ELSE video_opts(request))
        opts ==
            IF DictHas(with_mode, "postprocessors")
            THEN with_mode
            ELSE DictSet(with_mode, "postprocessors", <<>>)
        listed == DictGet(opts, "postprocessors")
        with_thumbnail ==
            IF request.embed_thumbnail /\ is_audio(request.mode)
            THEN Append(listed, << <<"key", "EmbedThumbnail">> >>)
            ELSE listed
        with_metadata ==
            IF request.embed_metadata
            THEN Append(with_thumbnail, << <<"key", "FFmpegMetadata">> >>)
            ELSE with_thumbnail
    IN DictSet(opts, "postprocessors", with_metadata)

\* download(): hooks = [progress_callback, self._progress_logger]
DownloadHooks == <<"progress_callback", "_progress_logger">>

\* download_engine.py
BASE_ARGS ==
    <<"--newline", "--extractor-args", "youtube:player_client=web", "--user-agent",
      USER_AGENT, "--compat-options", "prefer-free-formats,manifestless",
      "--write-thumbnail", "--write-description", "--write-info-json", "--no-playlist">>

CHOICE_TO_MODE ==
    [choice \in {"1", "2", "3", "4"} |->
        CASE choice = "1" -> "single_song"
          [] choice = "2" -> "single_video"
          [] choice = "3" -> "playlist_song"
          [] choice = "4" -> "playlist_video"]

MODE_TO_ARGS ==
    [mode \in {"single_song", "single_video", "playlist_song", "playlist_video"} |->
        CASE mode = "single_song" ->
                <<"-f", AUDIO_FORMAT_SELECTOR, "--extract-audio", "--audio-format", "mp3",
                  "--audio-quality", "0.256">>
          [] mode = "single_video" ->
                <<"-f", "bestvideo[ext=mp4][height<=1080]+bestaudio[ext=m4a]/best[ext=mp4]/best",
                  "--merge-output-format", "mp4">>
          [] mode = "playlist_song" ->
                <<"--yes-playlist", "-f", AUDIO_FORMAT_SELECTOR, "--extract-audio",
                  "--audio-format", "mp3", "--audio-quality", "0.256">>
          [] mode = "playlist_video" ->
                <<"--yes-playlist", "-f",
                  "bestvideo[ext=mp4][height<=1080]+bestaudio[ext=m4a]/best[ext=mp4]/best",
                  "--merge-output-format", "mp4">>]

cookie_args_fallback_first(cookies_path) ==
    IF home_cookies
    THEN <<"--cookies-from-browser", "Chrome">>
    ELSE IF Truthy(cookies_path) THEN <<"--cookies", cookies_path>> ELSE <<>>

\* the authentication options of build_command and of download.create_command
cookie_args(cookies_path) ==
    IF Truthy(cookies_path)
    THEN <<"--cookies", cookies_path>>
    ELSE IF home_cookies THEN <<"--cookies-from-browser", "Chrome">> ELSE <<>>

build_command_without_destination(mode, url, destination, cookies_path) ==
    LET command == <<"yt-dlp">> \o BASE_ARGS \o cookie_args(cookies_path)
    IN IF mode \notin DOMAIN MODE_TO_ARGS
       THEN Raised([kind |-> "ValueError", msg |-> <<"Unsupported download mode: ", mode>>])
       ELSE Returned(command \o MODE_TO_ARGS[mode] \o <<url>>)

\* download_engine.build_command
build_command(mode, url, destination, cookies_path) ==
    LET command == <<"yt-dlp">> \o BASE_ARGS \o cookie_args(cookies_path) \o <<"-P", destination>>
    IN IF mode \notin DOMAIN MODE_TO_ARGS
       THEN Raised([kind |-> "ValueError", msg |-> <<"Unsupported download mode: ", mode>>])
       ELSE Returned(command \o MODE_TO_ARGS[mode] \o <<url>>)

\* download_engine.create_command
create_command(choice, url, destination, cookies_path) ==
    IF choice \notin DOMAIN CHOICE_TO_MODE
    THEN Raised([kind |-> "ValueError", msg |-> <<"Unknown selection: ", choice>>])
    ELSE build_command(CHOICE_TO_MODE[choice], url, destination, cookies_path)

\* download.py: create_command
download_create_command(choice, url, destination, cookies_path) ==
    LET base_command ==
            <<"yt-dlp", "--newline", "--extractor-args", "youtube:player_client=web",
              "--user-agent", USER_AGENT>>
            \o cookie_args(cookies_path)
            \o <<"-P", destination, "--write-thumbnail", "--write-description",
                 "--write-info-json", "--compat-options",
                 "no-youtube-channel-redirect,no-youtube-live-check,prefer-free-formats,manifestless">>
        song ==
            <<"-f", AUDIO_FORMAT_SELECTOR, "--extract-audio", "--audio-format", "mp3",
              "--audio-quality", "0.256">>
    IN CASE choice = "1" ->
               Returned(base_command \o <<"--remux-video", "mp4">>
                        \o <<"-f", AUDIO_FORMAT_SELECTOR, "--no-playlist", url>>)
         [] choice = "2" -> Returned(base_command \o song \o <<"--no-playlist">> \o <<url>>)
         [] choice = "3" ->
               Returned(base_command \o <<"--remux-video", "mp4", "--yes-playlist">>
                        \o <<"-f", AUDIO_FORMAT_SELECTOR, url>>)
         [] choice = "4" -> Returned(base_command \o song \o <<"--yes-playlist">> \o <<url>>)
         [] OTHER -> ReturnedNone

\* create_command of the module impl
module_create_command(impl, choice, url, destination, cookies_path) ==
    IF impl = "download_engine"
    THEN create_command(choice, url, destination, cookies_path)
    ELSE download_create_command(choice, url, destination, cookies_path)

\* download_video of either module: run_download("1", url, output_dir, ...),
\* which begins with create_command(choice, url, destination, ...)
download_video(impl, url, output_dir, cookies_path) ==
    module_create_command(impl, "1", url, output_dir, cookies_path)

\* inputs of the builders
PlanUrls == {"https://example/video1", "https://example/list2"}
PlanPaths == {<<"/", "music">>, <<"/", "videos">>}
PlanDestinations == {"/music", "/videos"}
PlanCookies == {None, "", "/c.txt"}
EngineModes == {"single_song", "single_video", "playlist_song", "playlist_video",
                "playlist_songs", "bogus"}
Choices == {"1", "2", "3", "4", "5"}
OptionProfiles ==
    { [cookies_path |-> NoDir, audio_bitrate |-> <<"2", "5", "6">>,
       video_resolution |-> <<"1", "0", "8", "0">>,
       embed_thumbnail |-> TRUE, embed_metadata |-> TRUE],
      [cookies_path |-> 1, audio_bitrate |-> <<"2", "5", "6", "k">>,
       video_resolution |-> <<"7", "2", "0", "p">>,
       embed_thumbnail |-> FALSE, embed_metadata |-> FALSE],
      [cookies_path |-> NoDir, audio_bitrate |-> <<"2", "5", "6", "K">>,
       video_resolution |-> <<>>,
       embed_thumbnail |-> TRUE, embed_metadata |-> FALSE],
      [cookies_path |-> 1, audio_bitrate |-> <<" ", "1", "2", "8", " ">>,
       video_resolution |-> <<"1", "0", "8", "0">>,
       embed_thumbnail |-> FALSE, embed_metadata |-> TRUE],
      [cookies_path |-> NoDir, audio_bitrate |-> <<"h", "i", "g", "h">>,
       video_resolution |-> <<"1", "0", "8", "0">>,
       embed_thumbnail |-> TRUE, embed_metadata |-> TRUE] }
\* DownloadRequest(...)
PlanRequests ==
    { [url |-> url, mode |-> mode, cookies_path |-> o.cookies_path,
       audio_bitrate |-> o.audio_bitrate, video_resolution |-> o.video_resolution,
       save_path |-> path,
       embed_thumbnail |-> o.embed_thumbnail, embed_metadata |-> o.embed_metadata] :
      url \in PlanUrls, path \in PlanPaths, mode \in DownloadModes, o \in OptionProfiles }

\* what the call returns or raises now
plan_of(call) ==
    CASE call.builder = "build_ydl_opts" -> Returned(build_ydl_opts(call.request, DownloadHooks))
      [] call.builder = "build_command" ->
            build_command(call.mode, call.url, call.destination, call.cookies_path)
      [] call.builder = "create_command" ->
            module_create_command(call.impl, call.choice, call.url, call.destination,
                                  call.cookies_path)
      [] call.builder = "download_video" ->
            download_video(call.impl, call.url, call.destination, call.cookies_path)

\* a builder is called
Build(call) ==
    /\ plan_call' = call
    /\ plan_result' = plan_of(call)
    /\ plan_first' = plan_of(call)
    /\ plan_builds' = <<home_cookies>>
    /\ UNCHANGED <<ds_vars, proc_vars, last_snapshot, progress_var, win_vars, mon_vars, home_cookies>>

BuildYdlOpts(request) == Build([builder |-> "build_ydl_opts", request |-> request])

BuildCommand(mode, url, destination, cookies_path) ==
    Build([url |-> url, mode |-> mode, cookies_path |-> cookies_path,
           builder |-> "build_command", destination |-> destination])

CreateCommand(impl, choice, url, destination, cookies_path) ==
    Build([url |-> url, cookies_path |-> cookies_path, builder |-> "create_command",
           impl |-> impl, choice |-> choice, destination |-> destination])

DownloadVideo(impl, url, destination, cookies_path) ==
    Build([url |-> url, cookies_path |-> cookies_path, builder |-> "download_video",
           impl |-> impl, destination |-> destination])

\* the same builder is called again with the same arguments
Rebuild ==
    /\ plan_call.builder # None
    /\ plan_result' = plan_of(plan_call)
    /\ plan_builds' = <<plan_builds[1], home_cookies>>
    /\ UNCHANGED <<ds_vars, proc_vars, last_snapshot, progress_var, win_vars, mon_vars, home_cookies,
                   plan_call, plan_first>>

\* the user's file ~/.yt-dlp-cookies.txt is created or removed
ChangeHomeCookies ==
    /\ home_cookies' = ~home_cookies
    /\ UNCHANGED <<ds_vars, proc_vars, last_snapshot, progress_var, win_vars, mon_vars, plan_call,
                   plan_result, plan_first, plan_builds>>

NextPlan ==
    \/ \E request \in PlanRequests : BuildYdlOpts(request)
    \/ \E mode \in EngineModes, url \in PlanUrls, destination \in PlanDestinations,
          cookies_path \in PlanCookies : BuildCommand(mode, url, destination, cookies_path)
    \/ \E impl \in MonImpls, choice \in Choices, url \in PlanUrls,
          destination \in PlanDestinations, cookies_path \in PlanCookies :
          CreateCommand(impl, choice, url, destination, cookies_path)
    \/ \E impl \in MonImpls, url \in PlanUrls, destination \in PlanDestinations,
          cookies_path \in PlanCookies : DownloadVideo(impl, url, destination, cookies_path)
    \/ Rebuild
    \/ ChangeHomeCookies

SpecPlan == Init /\ [][NextPlan]_vars

\* ================================================================== claims
AliveWorkers == {t \in ThreadIds : tstate[t] = "alive"}
LastLine(seq) == seq[Len(seq)]

\* C1: under every interleaving of concurrent start requests at most one
\* background download worker is running at any time.
AtMostOneWorker == Cardinality(AliveWorkers) <= 1

\* C2: every step of a start request that was issued while the job state was
\* Running leaves status, active, progress, logs and last_error as they were
\* and starts no worker.
SecondStartLeavesJobUntouched ==
    [][\A h \in Handlers :
          (hrunning[h] /\ hpc'[h] # hpc[h]) => (UNCHANGED job_vars /\ tstate' = tstate)]_vars

\* C3: the state.start() of an admitted start makes the snapshot Running with
\* percent 0, empty logs and no error in one step, whatever it was before; a
\* snapshot never shows Running together with an error.
FreshRunning ==
    [active |-> TRUE, progress |-> 0, status |-> "running", logs |-> <<>>, error |-> None]

AdmittedStartResetsAtomically ==
    [][/\ (\E h \in Handlers : StateStart(h)) => snapshot' = FreshRunning
       /\ (snapshot.status # "running" /\ snapshot'.status = "running")
             => snapshot' = FreshRunning
       /\ snapshot'.status = "running" => snapshot'.error = None]_vars

\* C3 witness: a start was admitted after an earlier job had run to its end
StartedAfterEarlierJob ==
    /\ snapshot = FreshRunning
    /\ \E t \in ThreadIds : tstate[t] = "dead"
    /\ AliveWorkers = {}
    /\ hpc[1] = "launch_log"

\* C4: the phase changes only along Idle -> Running, Running -> Completed,
\* Running -> Failed and {Completed, Failed} -> Running.
PhaseFollowsLifecycle ==
    [][status' # status =>
          <<status, status'>> \in { <<"idle", "running">>, <<"running", "completed">>,
                                   <<"running", "error">>, <<"completed", "running">>,
                                   <<"error", "running">> }]_vars

PercentOf(text) ==
    CASE text = <<" ", "5", "5", "%">> -> 55
      [] text = <<"1", "5", "0", "%">> -> 100
      [] text = <<"-", "5", "%">> -> 0

ParseablePercents ==
    { <<" ", "5", "5", "%">>, <<"1", "5", "0", "%">>, <<"-", "5", "%">> }

RecordsDriveProgress ==
    /\ [][\A t \in ThreadIds :
             /\ \A p \in ParseablePercents :
                   EngineRecord(t, [status |-> "downloading", percent_str |-> p])
                      => progress' = PercentOf(p)
             /\ (OnCompleteFinish(t) /\ werr[t] = NoError)
                   => (status' = "completed" /\ progress' = 100 /\ active' = FALSE)]_vars
    /\ [](\A t \in ThreadIds :
             (wpc[t] = "exit" /\ werr[t] = NoError)
                => (status = "completed" /\ progress = 100 /\ ~active))

\* C6 witness: a job reported a downloading record, then a finished record
\* with a file name, and returned
DownloadThenFinishedDone ==
    \E t \in ThreadIds :
        /\ wpc[t] = "exit" /\ werr[t] = NoError /\ wcount[t] = 2
        /\ wrec[t] = [status |-> "finished", filename |-> "a.mp3"]
        /\ \E i \in 1 .. Len(logs) :
              logs[i] = [k |-> "downloading", pct |-> <<"1", "5", "0", "%">>]
        /\ status = "completed" /\ progress = 100 /\ ~active

\* C7: the stored percent is always within 0 .. 100: set_progress stores 100
\* for a value above 100 and 0 for a value below 0, and the value itself
\* otherwise, after any sequence of start, set_progress, finish and reset;
\* the same holds for the progress bar of the Tk window.
Bounded(value) == IF value > 100 THEN 100 ELSE IF value < 0 THEN 0 ELSE value

PercentStaysInRange ==
    /\ [](progress >= 0 /\ progress <= 100 /\ progress_var >= 0 /\ progress_var <= 100)
    /\ [][\A value \in ProgressValues :
             /\ CallSetProgress(value) => progress' = Bounded(value)
             /\ update_progress(value) => progress_var' = Bounded(value)]_vars

\* C7 witness: no input is 100, so a stored 100 without a finish is a value
\* above 100 that was cut, and the 0 of the progress bar came after a cut 100
CutToHundred ==
    /\ progress = 100 /\ status = "running" /\ progress_var = 100 /\ added > 0

\* C8: the logs of a snapshot are exactly the last min(n, 400) of the n
\* messages added since the last start or reset, in insertion order.
LogsAreLastMessages ==
    LET n == added
        kept == Min2(n, 400)
    IN snapshot.logs = [i \in 1 .. kept |-> Message(n - kept + i)]

\* C8 witness: more than 400 messages were added, the oldest are gone
OldestEvicted == added > 400 /\ Len(logs) = 400 /\ logs[1] = Message(added - 399)

\* C9: the fields one event changes become visible together: the step that
\* adds the line of a finished record also sets the percent to 100, and the
\* step that adds the last line of a job also sets the final phase.
EventsAppliedAtomically ==
    [][(logs' # logs /\ logs' # <<>>) =>
          /\ LastLine(logs').k = "finished" => progress' = 100
          /\ LastLine(logs').k = "all_finished" => status' = "completed"
          /\ LastLine(logs').k = "failed"
                => (status' = "error" /\ last_error' = LastLine(logs').arg)]_vars

\* C10: no step of a request handler changes status, active, progress, logs
\* or last_error, except the state.start() of an admitted start.
OnlyWorkerWritesJobState ==
    [][\A h \in Handlers :
          hpc'[h] # hpc[h] => (UNCHANGED job_vars \/ StateStart(h))]_vars

\* C11: the records of one job reach the observers in the order the engine
\* produced them and, for each record, the caller's progress callback runs
\* before the internal progress logger: no further record is delivered while
\* the observers of a record are still running, the logger writes its line
\* for the record delivered last, at that moment the update of the callback
\* for that record is already in the state, and in the log the callback's
\* line of a finished record is followed by the logger's line of the same
\* record before any line of a later record.
RecordLineKinds == {"downloading", "finished", "download_finished", "engine_error"}

CallbackAlreadyApplied(t) ==
    /\ wrec[t].status \in {"downloading", "finished"}
    /\ (wrec[t].status = "downloading" /\ "percent_str" \in DOMAIN wrec[t])
          => (wrec[t].percent_str \in ParseablePercents
                 => progress = PercentOf(wrec[t].percent_str))
    /\ wrec[t].status = "finished"
          => /\ progress = 100
             /\ "filename" \in DOMAIN wrec[t]
                   => \E i \in 1 .. Len(logs) : logs[i] = LineOf("finished", wrec[t].filename)

LogKeepsRecordOrder ==
    \A i \in 1 .. Len(logs) :
        logs[i].k = "finished" =>
            \A j \in (i + 1) .. Len(logs) :
                logs[j].k \in RecordLineKinds =>
                    \E m \in (i + 1) .. j :
                        /\ logs[m] = LineOf("download_finished", logs[i].arg)
                        /\ \A n \in (i + 1) .. (m - 1) : logs[n].k \notin RecordLineKinds

EventsInEngineOrder ==
    /\ [](\A t \in ThreadIds : wpc[t] = "logger" => CallbackAlreadyApplied(t))
    /\ []LogKeepsRecordOrder
    /\ [][\A t \in ThreadIds :
             /\ wpc[t] \in {"finished_progress", "logger"}
                   => (wrec'[t] = wrec[t] /\ wcount'[t] = wcount[t])
             /\ wpc[t] = "finished_progress" => wpc'[t] \in {"finished_progress", "logger"}
             /\ wpc[t] = "logger" => wpc'[t] \in {"logger", "engine"}
             /\ (wpc[t] = "logger" /\ wpc'[t] = "engine")
                   => (logs' # logs /\ LastLine(logs') = progress_logger_line(wrec[t]))]_vars

\* C11 witness: the second record of a job, a finished one, is with the
\* logger; the log holds the logger's line of the first record and then the
\* callback's line of the second
SecondRecordAtLogger ==
    \E t \in ThreadIds :
        /\ wpc[t] = "logger" /\ wcount[t] = 2
        /\ wrec[t] = [status |-> "finished", filename |-> "a.mp3"]
        /\ \E i \in 1 .. Len(logs) :
              /\ logs[i] = [k |-> "downloading", pct |-> <<" ", "5", "5", "%">>]
              /\ \E j \in (i + 1) .. Len(logs) : logs[j] = LineOf("finished", "a.mp3")
        /\ progress = 100

\* C12: under a fair scheduler and with engine calls that terminate, a job
\* state that is Running eventually becomes Completed or Failed, and a
\* background downloader that is busy eventually is free again, so that a
\* later start request is admitted.
SlotNeverStuck ==
    /\ (status = "running") ~> (status \in {"completed", "error"})
    /\ is_running ~> ~is_running

\* C13: once Cancel was pressed during a running job of the window, no later
\* step of that job changes the progress bar or adds to its log, and the job
\* is not reported as complete.
JobLineKinds == {"finished", "error", "download_complete", "pipeline_completed"}

CancelStopsJob ==
    [][(tk_cancelled /\ tk_jobs' = tk_jobs)
          => /\ progress_var' = progress_var
             /\ (Len(log_queue') > Len(log_queue)) => LastLine(log_queue').k \notin JobLineKinds
             /\ tk_dialog' # "download_complete"]_vars

\* C14: a start request with a blank URL or with a mode outside the five
\* modes is rejected by the handler itself: none of its steps creates or
\* starts a worker or touches the background downloader, it never reaches
\* state.start() or background.start, and it puts the failure on record for
\* the caller: first a log line with the message of the ValueError, then
\* status "error" with last_error that message, and only then it returns.
RejectedForms ==
    { [url |-> BlankUrl, mode |-> "single_video", cookies |-> TRUE],
      [url |-> Url, mode |-> "bogus", cookies |-> FALSE] }

RejectionMessage(form) == IF form.url = BlankUrl THEN MissingUrlMsg ELSE BadModeMsg

InvalidStartRejected ==
    [][\A h \in Handlers :
          (hform[h] \in RejectedForms /\ hpc'[h] # hpc[h])
             => /\ tstate' = tstate /\ wpc' = wpc /\ bg_thread' = bg_thread
                /\ hpc'[h] \in {"idle", "build", "invalid_finish"}
                /\ (status' = "running") => (status = "running")
                /\ hpc[h] = "build"
                      => /\ hpc'[h] = "invalid_finish"
                         /\ LastLine(logs') = LineOf("invalid", RejectionMessage(hform[h]))
                         /\ Len(logs') = Len(logs) + 1
                /\ hpc[h] = "invalid_finish"
                      => /\ hpc'[h] = "idle"
                         /\ snapshot'.status = "error"
                         /\ ~snapshot'.active
                         /\ snapshot'.error = RejectionMessage(hform[h])]_vars

\* C14 witness: a request with an unknown mode has been answered, after an
\* earlier job had run; no worker was started for it
UnknownModeAnswered ==
    /\ hpc[1] = "idle" /\ nreq = 2
    /\ status = "error" /\ last_error = BadModeMsg
    /\ \E i \in 1 .. Len(logs) : logs[i] = LineOf("invalid", BadModeMsg)
    /\ \E t \in ThreadIds : tstate[t] = "dead"
    /\ \A t \in ThreadIds : tstate[t] \in {"none", "dead"}

\* C15: a request whose credentials file does not exist when the request is
\* constructed fails construction: the handler that holds the path of a
\* cookies file that is not on disk goes on to the rejection, not to
\* state.start(), and starts no job.
MissingCredentialsRejected ==
    [][\A h \in Handlers :
          (/\ hpc[h] = "build" /\ hpc'[h] # hpc[h]
           /\ hcookies[h] # NoDir /\ hcookies[h] \notin tmpdirs)
             => (hpc'[h] = "invalid_finish" /\ status' = status /\ tstate' = tstate)]_vars

\* C16: in one run of monitor_progress the stage message "Transcoding,
\* please wait..." is written exactly once if the run has read a line with a
\* transcoding marker, directly after the first such line, and not at all
\* otherwise, however many marker lines the run reads.
MarkerLines ==
    { <<"T", "r", "a", "n", "s", "c", "o", "d", "i", "n", "g">>,
      <<"E", "x", "t", "r", "a", "c", "t", "i", "n", "g", " ", "a", "u", "d", "i", "o",
        " ", "7", "0", "%">>,
      <<"M", "e", "r", "g", "i", "n", "g", " ", "f", "o", "r", "m", "a", "t", "s", " ",
        "i", "n", "t", "o", " ", "a">> }

MarkerLineAt ==
    {i \in 1 .. Len(mon_log) : mon_log[i].k = "line" /\ mon_log[i].arg \in MarkerLines}
StageAt == {i \in 1 .. Len(mon_log) : mon_log[i].k = "transcoding"}

OneStagePerRun ==
    IF MarkerLineAt = {}
    THEN StageAt = {}
    ELSE StageAt = {(CHOOSE i \in MarkerLineAt : \A j \in MarkerLineAt : i <= j) + 1}

\* C16 witness: a finished run that read three marker lines
ThreeMarkerLinesOneStage ==
    /\ mon_pc = "idle" /\ Cardinality(MarkerLineAt) = 3 /\ Cardinality(StageAt) = 1
    /\ mon_log[2] = Line("transcoding") /\ Len(mon_log) = 5

\* C17: for every line read, monitor_progress hands progress_handler the value
\* of the first whitespace-separated token that ends in "%" and parses as a
\* number, skipping tokens that end in "%" and do not parse, and nothing if
\* the line has no such token; the run goes on with the next line.
PercentageOf(raw_line) ==
    CASE raw_line = <<"5", "0", "%", "\n">> -> <<50>>
      [] raw_line = <<"1", "0", "%", " ", "2", "0", "%">> -> <<10>>
      [] raw_line = <<"x", "%", " ", "6", "0", "%">> -> <<60>>
      [] raw_line = <<"%", "5", "0", " ", "6", "0", "%">> -> <<60>>
      [] raw_line = <<"E", "x", "t", "r", "a", "c", "t", "i", "n", "g", " ", "a", "u", "d",
                      "i", "o", " ", "7", "0", "%", "\n">> -> <<70>>
      [] OTHER -> <<>>

FirstPercentTokenWins ==
    [][\A raw_line \in MonLines :
          MonitorLine(raw_line)
             => (mon_progress' = mon_progress \o PercentageOf(raw_line) /\ mon_pc' = "reading")]_vars

\* C18: a downloading record whose percent text is not a number does not
\* fail the job: the step that consumes it stores percent 0, leaves the
\* status "running" and the error empty, raises nothing in the worker, and
\* the worker goes on to the logger and the next record.
UnparsedRecord == [status |-> "downloading", percent_str |-> <<"N", "/", "A">>]

UnparsedPercentIsZero ==
    /\ [][\A t \in ThreadIds :
             EngineRecord(t, UnparsedRecord)
                => /\ progress' = 0
                   /\ status = "running" /\ status' = "running" /\ active'
                   /\ last_error' = None
                   /\ werr'[t] = NoError /\ wpc'[t] = "logger" /\ tstate'[t] = "alive"]_vars
    /\ [](\A t \in ThreadIds :
             (wrec[t] = UnparsedRecord /\ wpc[t] = "logger")
                => (progress = 0 /\ status = "running" /\ last_error = None))

\* C18 witness: the percent was 55 after the first record of the job and the
\* second record, which does not parse, has been consumed
UnparsedAfterProgress ==
    \E t \in ThreadIds :
        /\ wrec[t] = UnparsedRecord /\ wcount[t] = 2 /\ wpc[t] = "logger"
        /\ LastLine(logs) = [k |-> "downloading", pct |-> <<" ", "5", "5", "%">>]
        /\ progress = 0 /\ status = "running"

\* progress_hook has returned from the "finished" record of worker t
FinishedConsumed(t) == wrec[t].status = "finished" /\ wpc[t] = "logger"

\* C19 as stated: once a "finished" record has been consumed by the progress
\* hook of a running job, the status is "completed" and the percent is 100.
FinishedRecordCompletes ==
    \A t \in ThreadIds : FinishedConsumed(t) => (status = "completed" /\ progress = 100)

\* C19 amended: the "finished" record sets the percent to 100 and leaves the
\* status, the active flag and the error as they are; the status becomes
\* "completed" only in the later step in which a worker, after its engine call
\* has returned without an exception, calls state.finish(None).
FinishedRecordFillsBar ==
    /\ [][\A t \in ThreadIds :
             /\ (~FinishedConsumed(t) /\ FinishedConsumed(t)')
                   => /\ progress' = 100
                      /\ status' = status /\ active' = active /\ last_error' = last_error
             /\ (status # "completed" /\ status' = "completed")
                   => \E u \in ThreadIds : OnCompleteFinish(u) /\ werr[u] = NoError]_vars

\* C19 witness: the record {finished, a.mp3} has been consumed after a 55%
\* record; the percent is 100 and the job is still running
FinishedStillRunning ==
    \E t \in ThreadIds :
        /\ FinishedConsumed(t) /\ wcount[t] = 2
        /\ LastLine(logs) = LineOf("finished", "a.mp3")
        /\ progress = 100 /\ status = "running" /\ active

\* an "error" record is the last record the hooks of worker t have seen
ErrorConsumed(t) == tstate[t] = "alive" /\ wrec[t].status = "error"

\* C20 as stated: once an "error" record has been consumed for a running job,
\* the status is "error" and the error text is set.
ErrorRecordFails ==
    \A t \in ThreadIds : ErrorConsumed(t) => (status = "error" /\ last_error # None)

\* What the code does with the record: the progress hook ignores it and
\* _progress_logger writes "An error occurred while downloading."; status,
\* active flag, percent and error text stay as they are and the engine call
\* goes on.  The status becomes "error" only in a step that calls
\* state.finish with an exception.
ErrorRecordOnlyLogged ==
    [][/\ \A t \in ThreadIds :
             EngineRecord(t, [status |-> "error"])
                => /\ LastLine(logs') = Line("engine_error")
                   /\ progress' = progress /\ status' = status /\ active' = active
                   /\ last_error' = last_error
                   /\ werr'[t] = NoError /\ wpc'[t] = "engine"
       /\ (status # "error" /\ status' = "error")
             => \/ \E u \in ThreadIds : OnCompleteFinish(u) /\ werr[u] # NoError
                \/ \E h \in Handlers : InvalidFinish(h)]_vars

\* A job whose only record was "error" has ended as "completed" with percent
\* 100 and no error text.
CompletedAfterErrorRecord ==
    /\ status = "completed" /\ progress = 100 /\ last_error = None /\ ~active
    /\ Len(logs) >= 2
    /\ logs[Len(logs) - 1] = Line("engine_error")
    /\ LastLine(logs) = Line("all_finished")

\* the completion lines in the log of the current run of monitor_progress
CompletionAt == {i \in 1 .. Len(mon_log) : mon_log[i] = Line("completed")}

\* C21 as stated: when the engine's output has ended, the completion message
\* is delivered first and the synthetic progress 100 after it, so whenever
\* that progress value has been delivered the completion message is in the
\* log already.
CompletionBeforeFinalProgress ==
    mon_pc = "completing" => CompletionAt # {}

\* C21 amended: the order is the opposite.  The step at the end of the output
\* hands 100 to progress_handler and writes nothing; the completion message
\* is written in the next step, which hands nothing to progress_handler.
\* While the run reads, the log has no completion message; between the two
\* steps the last progress value is 100 and the log still has none; after
\* the run the log ends with its only completion message and the last
\* progress value is still that 100.
FinalProgressBeforeCompletion ==
    /\ [][/\ (mon_pc = "reading" /\ mon_pc' = "completing")
                => (mon_progress' = Append(mon_progress, 100) /\ mon_log' = mon_log)
          /\ (mon_pc = "completing" /\ mon_pc' # "completing")
                => /\ mon_pc' = "idle"
                   /\ mon_log' = Append(mon_log, Line("completed"))
                   /\ mon_progress' = mon_progress
          /\ (mon_pc = "reading" /\ mon_pc' # "reading") => mon_pc' = "completing"]_vars
    /\ [](mon_pc = "reading" => CompletionAt = {})
    /\ [](mon_pc = "completing"
             => (CompletionAt = {} /\ mon_progress # <<>> /\ LastLine(mon_progress) = 100))
    /\ []((mon_pc = "idle" /\ mon_jobs > 0)
             => (CompletionAt = {Len(mon_log)} /\ mon_progress # <<>>
                 /\ LastLine(mon_progress) = 100))

\* C21 witness: a run that read the line "50%" has ended: progress 50 and
\* 100, the line and the completion message
RunEndedAfterProgress ==
    /\ mon_pc = "idle" /\ mon_jobs > 0
    /\ mon_progress = <<50, 100>>
    /\ mon_log = <<LineOf("line", <<"5", "0", "%">>), Line("completed")>>

\* a builder has been called and has returned a plan
PlanReturned == plan_call.builder # None /\ plan_result.k = "returned"

\* the option is among the arguments of the command
HasArg(command, arg) == \E i \in 1 .. Len(command) : command[i] = arg

\* the call asks for a playlist: the request's mode for _build_ydl_opts, the
\* mode token for build_command, menu entries 3 and 4 for both create_command
IsPlaylistCall(call) ==
    CASE call.builder = "build_ydl_opts" -> is_playlist(call.request.mode)
      [] call.builder = "build_command" -> call.mode \in {"playlist_song", "playlist_video"}
      [] call.builder = "create_command" -> call.choice \in {"3", "4"}
      [] call.builder = "download_video" -> FALSE

\* the plan carries the flag that enables playlists; a dictionary of options
\* has the single key noplaylist, so there the flag is its being False
EnablesPlaylist(call, plan) ==
    IF call.builder = "build_ydl_opts"
    THEN DictHas(plan, "noplaylist") /\ DictGet(plan, "noplaylist") = FALSE
    ELSE HasArg(plan, "--yes-playlist")

\* the plan carries the flag that restricts the download to one item
DisablesPlaylist(call, plan) ==
    IF call.builder = "build_ydl_opts"
    THEN DictHas(plan, "noplaylist") /\ DictGet(plan, "noplaylist") = TRUE
    ELSE HasArg(plan, "--no-playlist")

\* C22 as stated: every plan a builder returns carries the playlist-enabling
\* flag and not the no-playlist flag when the call asks for a playlist, and
\* the no-playlist flag and not the enabling flag when it does not: never
\* both flags, never neither.
PlaylistFlagMatchesMode ==
    PlanReturned
        => /\ EnablesPlaylist(plan_call, plan_result.value) = IsPlaylistCall(plan_call)
           /\ DisablesPlaylist(plan_call, plan_result.value) = ~IsPlaylistCall(plan_call)

\* What holds instead: _build_ydl_opts and download.create_command carry
\* exactly the flag of the call; download_engine.build_command always carries
\* --no-playlist, and --yes-playlist in addition for the two playlist modes.
PlaylistFlagsOfBuilders ==
    PlanReturned
        => LET viaEngine ==
                   \/ plan_call.builder = "build_command"
                   \/ /\ plan_call.builder \in {"create_command", "download_video"}
                      /\ plan_call.impl = "download_engine"
           IN /\ EnablesPlaylist(plan_call, plan_result.value) = IsPlaylistCall(plan_call)
              /\ DisablesPlaylist(plan_call, plan_result.value)
                    = (viaEngine \/ ~IsPlaylistCall(plan_call))

\* build_command has returned a command for a playlist mode
PlaylistCommandBuilt ==
    /\ PlanReturned /\ plan_call.builder = "build_command"
    /\ plan_call.mode = "playlist_video"
    /\ HasArg(plan_result.value, "--yes-playlist")
    /\ HasArg(plan_result.value, "--no-playlist")

\* the plan is what the builder returns in the present environment
PlanCurrent == PlanReturned /\ plan_result = plan_of(plan_call)

\* the well-known default credentials file
DefaultCookiesFile == "~/.yt-dlp-cookies.txt"

\* the call supplies a credentials file
ExplicitCookies(call) ==
    IF call.builder = "build_ydl_opts"
    THEN call.request.cookies_path # NoDir
    ELSE Truthy(call.cookies_path)

\* the reference to the credentials file f in a plan of this builder
CookiesReference(call, f) ==
    IF call.builder = "build_ydl_opts" THEN <<"cookiefile", f>> ELSE <<"--cookies", f>>

\* the authentication options of the plan, in order, each with its value
RECURSIVE CommandAuth(_)
CommandAuth(command) ==
    IF Len(command) < 2 THEN <<>>
    ELSE IF Head(command) \in {"--cookies", "--cookies-from-browser"}
         THEN <<command[1], command[2]>> \o CommandAuth(Tail(Tail(command)))
         ELSE CommandAuth(Tail(command))
PlanAuth(call, plan) ==
    IF call.builder = "build_ydl_opts"
    THEN IF DictHas(plan, "cookiefile") THEN <<"cookiefile", DictGet(plan, "cookiefile")>>
         ELSE <<>>
    ELSE CommandAuth(plan)

\* C23 as stated: the authentication of a plan is the reference to the
\* supplied credentials file when one is supplied; otherwise the reference to
\* the default credentials file when that file exists; otherwise nothing.
AuthenticationBranches ==
    PlanCurrent
        => PlanAuth(plan_call, plan_result.value)
              = IF ExplicitCookies(plan_call)
                THEN CookiesReference(plan_call,
                                      IF plan_call.builder = "build_ydl_opts"
                                      THEN plan_call.request.cookies_path
                                      ELSE plan_call.cookies_path)
                ELSE IF home_cookies
                     THEN CookiesReference(plan_call, DefaultCookiesFile)
                     ELSE <<>>

\* What holds instead: a supplied file is referenced and nothing else; with
\* none supplied, _build_ydl_opts adds no authentication whether or not the
\* default file exists, and the command builders add the browser's cookie
\* store, not the file, when the default file exists.
AuthenticationOfBuilders ==
    PlanCurrent
        => PlanAuth(plan_call, plan_result.value)
              = IF ExplicitCookies(plan_call)
                THEN CookiesReference(plan_call,
                                      IF plan_call.builder = "build_ydl_opts"
                                      THEN plan_call.request.cookies_path
                                      ELSE plan_call.cookies_path)
                ELSE IF home_cookies /\ plan_call.builder # "build_ydl_opts"
                     THEN <<"--cookies-from-browser", "Chrome">>
                     ELSE <<>>

\* build_command was called without a credentials file while the default
\* file exists
FallbackFromBrowser ==
    /\ PlanCurrent /\ plan_call.builder = "build_command" /\ home_cookies
    /\ plan_call.cookies_path = None
    /\ PlanAuth(plan_call, plan_result.value) = <<"--cookies-from-browser", "Chrome">>

\* _build_ydl_opts was called without a credentials file while the default
\* file exists
NoFallbackInOptions ==
    /\ PlanCurrent /\ plan_call.builder = "build_ydl_opts" /\ home_cookies
    /\ plan_call.request.cookies_path = NoDir
    /\ PlanAuth(plan_call, plan_result.value) = <<>>

\* the values that follow the option in the command
ArgValues(command, option) ==
    {command[i + 1] : i \in {j \in 1 .. Len(command) - 1 : command[j] = option}}

\* the spellings of the bitrate 256
Bitrate256 == {<<"2", "5", "6">>, <<"2", "5", "6", "k">>, <<"2", "5", "6", "K">>}

\* the call is a single-audio request with bitrate 256; the command builders
\* take no bitrate, 256 is the one their table is written for
SingleAudio256(call) ==
    CASE call.builder = "build_ydl_opts" ->
            call.request.mode = "single_song" /\ call.request.audio_bitrate \in Bitrate256
      [] call.builder = "build_command" -> call.mode = "single_song"
      [] OTHER -> FALSE

\* the qualities of the extract-audio steps of the plan
ExtractAudioQualities(call, plan) ==
    IF call.builder = "build_ydl_opts"
    THEN LET steps == DictGet(plan, "postprocessors")
         IN {DictGet(steps[i], "preferredquality") :
                i \in {j \in 1 .. Len(steps) : DictGet(steps[j], "key") = "FFmpegExtractAudio"}}
    ELSE IF HasArg(plan, "--extract-audio") THEN ArgValues(plan, "--audio-quality") ELSE {}

\* the format selector of the plan
PlanFormats(call, plan) ==
    IF call.builder = "build_ydl_opts" THEN {DictGet(plan, "format")} ELSE ArgValues(plan, "-f")

\* C24 as stated: the plan of a single-audio request with bitrate 256 has the
\* audio format-selector chain, an extract-audio step whose quality is exactly
\* "256", and does not include playlists.
SingleAudio256Plan ==
    (PlanReturned /\ SingleAudio256(plan_call))
        => /\ PlanFormats(plan_call, plan_result.value) = {AUDIO_FORMAT_SELECTOR}
           /\ ExtractAudioQualities(plan_call, plan_result.value)
                 = {IF plan_call.builder = "build_ydl_opts" THEN <<"2", "5", "6">> ELSE "256"}
           /\ ~EnablesPlaylist(plan_call, plan_result.value)

\* What holds instead: as stated for _build_ydl_opts; the command of
\* build_command has the chain, no --yes-playlist, and the quality "0.256".
SingleAudio256OfBuilders ==
    (PlanReturned /\ SingleAudio256(plan_call))
        => /\ PlanFormats(plan_call, plan_result.value) = {AUDIO_FORMAT_SELECTOR}
           /\ ExtractAudioQualities(plan_call, plan_result.value)
                 = {IF plan_call.builder = "build_ydl_opts" THEN <<"2", "5", "6">> ELSE "0.256"}
           /\ ~EnablesPlaylist(plan_call, plan_result.value)

\* _build_ydl_opts has built the plan of a single-audio request with the
\* bitrate "256K"
SingleAudio256KOptions ==
    /\ PlanReturned /\ plan_call.builder = "build_ydl_opts"
    /\ plan_call.request.mode = "single_song"
    /\ plan_call.request.audio_bitrate = <<"2", "5", "6", "K">>
    /\ ExtractAudioQualities(plan_call, plan_result.value) = {<<"2", "5", "6">>}

\* build_command has built the single-audio command
SingleAudioCommand ==
    /\ PlanReturned /\ plan_call.builder = "build_command" /\ plan_call.mode = "single_song"
    /\ ExtractAudioQualities(plan_call, plan_result.value) = {"0.256"}

\* the mode, read back from the explicit options of a command of build_command
CommandMode(command) ==
    CASE HasArg(command, "--extract-audio") /\ ~HasArg(command, "--yes-playlist") -> "single_song"
      [] HasArg(command, "--extract-audio") /\ HasArg(command, "--yes-playlist") -> "playlist_song"
      [] HasArg(command, "--merge-output-format") /\ ~HasArg(command, "--yes-playlist") ->
            "single_video"
      [] HasArg(command, "--merge-output-format") /\ HasArg(command, "--yes-playlist") ->
            "playlist_video"
      [] OTHER -> None

\* the mode, read back from the options of _build_ydl_opts
OptionsMode(opts) ==
    CASE DictGet(opts, "ignoreerrors") /\ DictGet(opts, "noplaylist") -> "compatibility"
      [] ~DictGet(opts, "ignoreerrors") /\ DictGet(opts, "final_ext") = "mp3" ->
            IF DictGet(opts, "noplaylist") THEN "single_song" ELSE "playlist_songs"
      [] ~DictGet(opts, "ignoreerrors") /\ DictGet(opts, "final_ext") = "mp4" ->
            IF DictGet(opts, "noplaylist") THEN "single_video" ELSE "playlist_videos"
      [] OTHER -> None

\* the destination, read back from outtmpl: the directory of the template
OptionsDestination(opts) ==
    LET outtmpl == DictGet(opts, "outtmpl")
    IN IF outtmpl # <<>> /\ outtmpl[Len(outtmpl)] = OutputTemplate
       THEN SubSeq(outtmpl, 1, Len(outtmpl) - 1)
       ELSE None

\* mode and destination are read back from the plan of the call
ModeAndDestinationRecovered ==
    /\ (PlanReturned /\ plan_call.builder = "build_command")
          => /\ CommandMode(plan_result.value) = plan_call.mode
             /\ ArgValues(plan_result.value, "-P") = {plan_call.destination}
    /\ (PlanReturned /\ plan_call.builder = "build_ydl_opts")
          => /\ OptionsMode(plan_result.value) = plan_call.request.mode
             /\ OptionsDestination(plan_result.value) = plan_call.request.save_path
             /\ \A other \in PlanRequests :
                   build_ydl_opts(other, DownloadHooks) = plan_result.value
                      => /\ other.mode = plan_call.request.mode
                         /\ other.save_path = plan_call.request.save_path

\* C25 as stated: mode, url and destination are read back from the plan, and
\* no request that differs in one of them gives the same plan.
RoundTripModeUrlDestination ==
    /\ ModeAndDestinationRecovered
    /\ (PlanReturned /\ plan_call.builder = "build_command")
          => /\ plan_result.value[Len(plan_result.value)] = plan_call.url
             /\ \A mode \in DOMAIN MODE_TO_ARGS, url \in PlanUrls,
                   destination \in PlanDestinations :
                   <<mode, url, destination>>
                         # <<plan_call.mode, plan_call.url, plan_call.destination>>
                      => build_command(mode, url, destination, plan_call.cookies_path)
                            # plan_result
    /\ (PlanReturned /\ plan_call.builder = "build_ydl_opts")
          => \A other \in PlanRequests :
                other.url # plan_call.request.url
                   => build_ydl_opts(other, DownloadHooks) # plan_result.value

\* C25 amended: mode and destination are read back from the plan of either
\* builder; the url is read back from a command of build_command, of which it
\* is the last argument, and no call of build_command that differs in mode,
\* url or destination gives the same command; the options of _build_ydl_opts
\* do not hold the url: the request that differs in nothing but the url gives
\* the same options.
RoundTripWithoutUrlInOptions ==
    /\ ModeAndDestinationRecovered
    /\ (PlanReturned /\ plan_call.builder = "build_command")
          => /\ plan_result.value[Len(plan_result.value)] = plan_call.url
             /\ \A mode \in DOMAIN MODE_TO_ARGS, url \in PlanUrls,
                   destination \in PlanDestinations :
                   <<mode, url, destination>>
                         # <<plan_call.mode, plan_call.url, plan_call.destination>>
                      => build_command(mode, url, destination, plan_call.cookies_path)
                            # plan_result
    /\ (PlanReturned /\ plan_call.builder = "build_ydl_opts")
          => \A url \in PlanUrls :
                build_ydl_opts([plan_call.request EXCEPT !.url = url], DownloadHooks)
                   = plan_result.value

\* C25 witness: the options of a playlist-video request for the second url
\* have been built, and mode and destination are read back from them
PlaylistVideoOptionsBuilt ==
    /\ PlanReturned /\ plan_call.builder = "build_ydl_opts"
    /\ plan_call.request.mode = "playlist_videos"
    /\ plan_call.request.url = "https://example/list2"
    /\ OptionsMode(plan_result.value) = "playlist_videos"
    /\ OptionsDestination(plan_result.value) = <<"/", "videos">>

\* C26 as stated: a builder that is called again with the same arguments
\* returns what it returned the first time, whatever else has changed.
SameInputsSamePlan ==
    plan_call.builder # None => plan_result = plan_first

\* C26 amended: the second call returns what the first returned when the
\* file ~/.yt-dlp-cookies.txt existed at both calls or at neither; when the
\* call supplies a credentials file; and for _build_ydl_opts always.
SameInputsAndDefaultFileSamePlan ==
    Len(plan_builds) = 2
        => /\ plan_builds[1] = plan_builds[2] => plan_result = plan_first
           /\ ExplicitCookies(plan_call) => plan_result = plan_first
           /\ plan_call.builder = "build_ydl_opts" => plan_result = plan_first

\* C26 witness: build_command was called twice with a credentials file, first
\* without and then with the default file on disk, and returned twice the
\* same command, which references the supplied file
BuiltTwiceWithCookies ==
    /\ plan_call.builder = "build_command" /\ plan_builds = <<FALSE, TRUE>>
    /\ plan_call.cookies_path = "/c.txt"
    /\ plan_result.k = "returned" /\ plan_result = plan_first
    /\ CommandAuth(plan_result.value) = <<"--cookies", "/c.txt">>

\* build_command was called twice without a credentials file, first without
\* and then with the default file on disk, and returned two commands
BuiltTwiceDifferently ==
    /\ plan_call.builder = "build_command" /\ plan_builds = <<FALSE, TRUE>>
    /\ plan_result.k = "returned" /\ plan_first.k = "returned"
    /\ CommandAuth(plan_first.value) = <<>>
    /\ CommandAuth(plan_result.value) = <<"--cookies-from-browser", "Chrome">>

\* the call names a mode or a menu choice outside the closed set
UnknownModeCall(call) ==
    CASE call.builder = "build_command" ->
            call.mode \notin {"single_song", "single_video", "playlist_song", "playlist_video"}
      [] call.builder = "create_command" -> call.choice \notin {"1", "2", "3", "4"}
      [] OTHER -> FALSE

\* C27 as stated: a command builder that is called with an unknown mode or
\* choice raises an error that names it and returns no command.
UnknownModeRaises ==
    (plan_call.builder # None /\ UnknownModeCall(plan_call))
        => /\ plan_result.k = "raised"
           /\ plan_result.error.kind = "ValueError"

\* What holds instead: no builder returns a command for an unknown mode or
\* choice; the two builders of download_engine raise ValueError with a
\* message that ends with the token, create_command of download.py returns
\* None and raises nothing.
UnknownModeOfBuilders ==
    (plan_call.builder # None /\ UnknownModeCall(plan_call))
        => IF plan_call.builder = "create_command" /\ plan_call.impl = "download"
           THEN plan_result = ReturnedNone
           ELSE /\ plan_result.k = "raised"
                /\ plan_result.error.kind = "ValueError"
                /\ plan_result.error.msg
                      = IF plan_call.builder = "build_command"
                        THEN <<"Unsupported download mode: ", plan_call.mode>>
                        ELSE <<"Unknown selection: ", plan_call.choice>>

\* create_command of download.py was called with choice 5 and returned None
LegacyUnknownChoiceReturnsNone ==
    /\ plan_call.builder = "create_command" /\ plan_call.impl = "download"
    /\ plan_call.choice = "5"
    /\ plan_result = ReturnedNone

\* build_command was called with the mode token of the other front end
EngineUnknownModeRaised ==
    /\ plan_call.builder = "build_command" /\ plan_call.mode = "playlist_songs"
    /\ plan_result.k = "raised"

\* the kind of a command: audio when it extracts the audio track, playlist
\* when it enables playlists
IsAudioCommand(command) == HasArg(command, "--extract-audio")
IsPlaylistCommand(command) == HasArg(command, "--yes-playlist")

\* the legacy menu of download.py: 1 and 3 are videos, 2 and 4 songs, 3 and 4
\* playlists
MenuIsAudio(choice) == choice \in {"2", "4"}
MenuIsPlaylist(choice) == choice \in {"3", "4"}

\* the menu choice of a call of create_command or download_video
ChoiceOf(call) == IF call.builder = "download_video" THEN "1" ELSE call.choice

\* a call of create_command or download_video of the module has returned a
\* command
MenuCommandReturned(impl) ==
    /\ PlanReturned /\ plan_call.builder \in {"create_command", "download_video"}
    /\ plan_call.impl = impl

\* C28 as stated: the command that download_engine builds for a menu choice
\* is of the kind the legacy menu gives the choice, which is the kind of the
\* command download.py builds for it; download_video builds a single-video
\* command.
EngineMenuAgreesWithLegacy ==
    MenuCommandReturned("download_engine")
        => LET legacy == download_create_command(ChoiceOf(plan_call), plan_call.url,
                                                 plan_call.destination, plan_call.cookies_path)
           IN /\ IsAudioCommand(plan_result.value) = MenuIsAudio(ChoiceOf(plan_call))
              /\ IsPlaylistCommand(plan_result.value) = MenuIsPlaylist(ChoiceOf(plan_call))
              /\ IsAudioCommand(plan_result.value) = IsAudioCommand(legacy.value)
              /\ IsPlaylistCommand(plan_result.value) = IsPlaylistCommand(legacy.value)

\* What holds instead: download.py follows its menu; download_engine agrees
\* with it on playlists and has songs and videos exchanged, for every choice.
EngineMenuExchangesKinds ==
    /\ MenuCommandReturned("download")
          => /\ IsAudioCommand(plan_result.value) = MenuIsAudio(ChoiceOf(plan_call))
             /\ IsPlaylistCommand(plan_result.value) = MenuIsPlaylist(ChoiceOf(plan_call))
    /\ MenuCommandReturned("download_engine")
          => /\ IsAudioCommand(plan_result.value) = ~MenuIsAudio(ChoiceOf(plan_call))
             /\ IsPlaylistCommand(plan_result.value) = MenuIsPlaylist(ChoiceOf(plan_call))

\* download_video of download_engine has built a command that extracts audio
DownloadVideoBuildsSong ==
    /\ MenuCommandReturned("download_engine") /\ plan_call.builder = "download_video"
    /\ IsAudioCommand(plan_result.value) /\ ~IsPlaylistCommand(plan_result.value)
    /\ ArgValues(plan_result.value, "--audio-format") = {"mp3"}

\* C29 as stated: the worker of every admitted job runs and calls
\* done_callback: a thread that was created for a job is started by the
\* handler that created it, and a worker whose engine call raised has kept
\* the exception and is alive, on its way through done_callback.
WorkerOfEveryJobCallsBack ==
    \A t \in ThreadIds :
        /\ tstate[t] = "created" => \E h \in Handlers : hpc[h] = "bg_start"
        /\ werr[t] # NoError
              => (tstate[t] = "alive" /\ wpc[t] \in {"done_log", "done_finish", "exit"})

\* What holds of a worker that runs: it enters done_callback from the engine
\* call only (the call returned, or raised and the exception was kept); it
\* leaves done_callback once, through state.finish with the kept exception
\* or None; then its thread ends and stays ended; the exception never ends
\* the thread before.
WorkerCallsBackOnce ==
    [][\A t \in ThreadIds :
          /\ (wpc[t] # "done_finish" /\ wpc'[t] = "done_finish")
                => wpc[t] \in {"download", "engine", "done_log"}
          /\ (werr'[t] # werr[t] /\ werr'[t] # NoError)
                => (tstate'[t] = "alive" /\ wpc'[t] \in {"done_log", "done_finish"})
          /\ (wpc[t] = "done_finish" /\ wpc'[t] # "done_finish")
                => /\ wpc'[t] = "exit" /\ werr'[t] = werr[t] /\ ~active'
                   /\ status' = IF werr[t] = NoError THEN "completed" ELSE "error"
                   /\ werr[t] # NoError => last_error' = Str(werr[t])
          /\ (wpc[t] = "exit" /\ wpc'[t] # "exit") => tstate'[t] = "dead"
          /\ (tstate[t] = "alive" /\ tstate'[t] # "alive") => wpc[t] = "exit"
          /\ tstate[t] = "dead" => tstate'[t] = "dead"]_vars

\* a worker thread was created for an admitted job and never started: the
\* handler that created it has started another handler's thread instead
ThreadNeverStarted ==
    /\ \E t \in ThreadIds : tstate[t] = "created"
    /\ \A h \in Handlers : hpc[h] = "idle"

\* C30: whenever the status is "completed", the progress is 100 and there is
\* no error message.
CompletedIsFullAndClean ==
    status = "completed" => (progress = FullProgress /\ last_error = None)

\* the status is "completed" while the progress is below 100
CompletedBelowFull == status = "completed" /\ progress < FullProgress

\* the status is "completed" while an error message is shown
CompletedWithError == status = "completed" /\ last_error # None

\* the worker is inside StreamSaavyDownloader.download, before done_callback
InDownload(t) ==
    tstate[t] = "alive" /\ wpc[t] \in {"download", "engine", "finished_progress", "logger"}

\* active and status are written together
ActiveIffRunning == active <=> (status = "running")

\* C31 as stated: active is true exactly when the status is "running", and
\* the status is "running" whenever a worker is inside the engine call.
RunningWhileEngineRuns ==
    /\ ActiveIffRunning
    /\ \A t \in ThreadIds : InDownload(t) => status = "running"

\* a worker is inside the engine call while the state shows a completed job
EngineRunsWhileCompleted ==
    /\ \E t \in ThreadIds : InDownload(t) /\ wpc[t] = "engine"
    /\ status = "completed" /\ ~active

\* a worker is inside the engine call while the state shows a failed job
EngineRunsWhileFailed ==
    /\ \E t \in ThreadIds : InDownload(t) /\ wpc[t] = "engine"
    /\ status = "error" /\ ~active

\* the worker's job was started with an uploaded cookies file
HasCookiesDir(t) == tstate[t] = "alive" /\ wreq[t].cookies_path # NoDir

\* at most one cookies directory exists, and it is the tracked one
OneCookiesDirTracked == Cardinality(tmpdirs) <= 1 /\ tmpdirs \subseteq {last_cookies_dir}

\* C32 as stated: the cookies directory of a job exists as long as the job's
\* worker is inside the engine call, and at most one directory is tracked.
CookiesDirKeptWhileEngineRuns ==
    /\ OneCookiesDirTracked
    /\ \A t \in ThreadIds :
          (HasCookiesDir(t) /\ InDownload(t)) => wreq[t].cookies_path \in tmpdirs

\* a worker is inside the engine call and its cookies directory is gone
CookiesDirGoneWhileEngineRuns ==
    \E t \in ThreadIds :
        /\ HasCookiesDir(t) /\ wpc[t] = "engine"
        /\ wreq[t].cookies_path \notin tmpdirs

\* the current run has been reported as completed: the completion message is
\* in the log and the last progress value is 100
ReportedCompleted ==
    CompletionAt # {} /\ mon_progress # <<>> /\ LastLine(mon_progress) = FullProgress

\* C33 as stated: a run whose engine process exits with a status other than
\* zero raises CalledProcessError and has not been reported as completed.
NoCompletionForFailedRun ==
    run_outcome = "raised" => (CompletionAt = {} /\ ~ReportedCompleted)

\* What holds instead: the report is made when the output ends, before the
\* exit status is read; every run is reported as completed by then, and the
\* exit status changes nothing of what was reported.
CompletionBeforeExitStatus ==
    /\ [](run_outcome \in {"returned", "raised"} => (mon_pc = "idle" /\ ReportedCompleted))
    /\ [][run_outcome' # run_outcome /\ run_outcome = "running"
             => (ReportedCompleted /\ mon_log' = mon_log /\ mon_progress' = mon_progress)]_vars

\* a run that read one line has raised CalledProcessError after the
\* completion message and the progress 100
FailedRunReportedCompleted ==
    /\ run_outcome = "raised" /\ mon_pc = "idle"
    /\ mon_progress = <<50, 100>>
    /\ LastLine(mon_log) = Line("completed")

\* the calls of _finish_download that wait in the queue of self.after
IsFinishCallback(callback) == callback.k = "finish"
FinishQueued == Len(SelectSeq(after_queue, IsFinishCallback))

FirstTkJobCompleted ==
    /\ tk_jobs = 1 /\ ~is_downloading /\ tk_dialog = "download_complete"
    /\ progress_var = FullProgress

\* C35: frame conditions of DownloadState.  set_progress changes nothing but
\* progress; add_log nothing but logs; finish with an error leaves progress
\* and logs as they are, finish without one leaves logs and last_error;
\* snapshot changes no field and returns the fields with the log lines of
\* that moment; the returned dictionary changes by no call other than the
\* next snapshot.
JobStateFrames ==
    [][/\ \A value \in ProgressValues :
             CallSetProgress(value)
                => UNCHANGED <<active, status, logs, last_error, last_cookies_dir, tmpdirs>>
       /\ CallAddLog
             => UNCHANGED <<active, progress, status, last_error, last_cookies_dir, tmpdirs>>
       /\ \A error \in CallErrors :
             CallFinish(error)
                => IF error # NoError
                   THEN UNCHANGED <<progress, logs>>
                   ELSE UNCHANGED <<logs, last_error>>
       /\ CallSnapshot
             => /\ UNCHANGED <<active, progress, status, logs, last_error, last_cookies_dir,
                               tmpdirs>>
                /\ last_snapshot'.logs = logs /\ last_snapshot'.progress = progress
                /\ last_snapshot'.active = active /\ last_snapshot'.status = status
                /\ last_snapshot'.error = last_error
       /\ last_snapshot' # last_snapshot => CallSnapshot]_vars

\* C35 witness: after a snapshot with one log line, a failed finish and a
\* progress value, two more lines were added; the snapshot still has the one
\* line
SnapshotKeptItsLogs ==
    /\ last_snapshot # NoSnapshot
    /\ last_snapshot.logs = <<Message(1)>> /\ last_snapshot.status = "running"
    /\ logs = <<Message(1), Message(2), Message(3)>>
    /\ status = "error" /\ progress = 55

====
